---- MODULE Spec2Model ----
(***************************************************************************)
(* Verification model of adk-copilot-llm:                                  *)
(*   - PollForAccessToken / checkAccessToken   (copilot/auth_test.go)      *)
(*   - ensureAPIKey                            (unnamed/part_001)          *)
(*   - GenerateContent, push bridge            (copilot/copilot.go)        *)
(*   - generateStreamingContent, pull bridge   (unnamed/part_001)          *)
(* Strings are modelled as sequences of words; strings.Contains and        *)
(* strings.HasPrefix work on those sequences.                              *)
(***************************************************************************)
EXTENDS Integers, Sequences, FiniteSets, TLC

VARIABLES
  \* ---- PollForAccessToken ----
  ppc,              \* position of PollForAccessToken: start / select / done / panic
  initInterval,     \* the interval argument, in seconds
  currentInterval,  \* currentInterval, in seconds
  clock,            \* wall clock, in seconds
  nextTick,         \* instant at which ticker.C next delivers
  pctx,             \* TRUE once ctx is cancelled
  pret,             \* returned (token, err)
  reqTimes,         \* instants at which a token-endpoint request was issued
  respLog,          \* the token-endpoint responses received, in order
  lateCheck,        \* TRUE once checkAccessToken was called with ctx already cancelled
  deviceCode,       \* the deviceCode argument of PollForAccessToken
  reqCodes,         \* the device code sent in each token-endpoint request
  \* ---- Authenticate ----
  apc,              \* position inside Authenticate; "none" when it is not running
  deviceLog,        \* the device-code responses received, in order
  aret,             \* what Authenticate returned: (token, err)
  \* ---- ensureAPIKey ----
  token,            \* config.GitHubToken
  copilotAPIKey,    \* c.copilotAPIKey
  apiKeyExpiresAt,  \* c.apiKeyExpiresAt, seconds since the epoch
  know,             \* time.Now(), seconds since the epoch
  writer,           \* the caller holding c.mu exclusively, 0 if none
  kpc,              \* position of each caller inside ensureAPIKey
  kret,             \* what each caller's last call returned: none / nil / err
  kpath,            \* the path on which each caller's last call returned
  exchSent,         \* exchange requests sent to the token endpoint
  exchLog,          \* the exchange responses received, in order
  kchecked,         \* when the caller now exchanging made its validity check
  \* ---- GenerateContent ----
  transport,        \* push (session events) or pull (SSE stream)
  cfgStreaming,     \* c.config.Streaming
  stream,           \* the stream argument of GenerateContent
  chanCap,          \* cap(eventCh)
  streaming,        \* the effective streaming flag
  ended,            \* how the sequence ended: cancel / done / error / stopped
  gpc,              \* position of the iterator body
  gctx,             \* TRUE once ctx is cancelled
  eventCh,          \* the buffered channel eventCh
  receivedFinalMessage,
  subscribed,       \* TRUE between session.On and unsubscribe
  teardown,         \* the deferred calls that have run: unsubscribe, Destroy
  lateFragments,    \* fragments the read loop yielded after ctx was cancelled
  sent,             \* TRUE once the prompt was handed to the session
  emitted,          \* session events fired / stream lines read so far
  observed,         \* the events handed to the listener, with their fate
  yielded,          \* the items passed to yield, in order
  \* ---- sseReader ----
  input,            \* the bytes of the response body
  unread,           \* the bytes r.reader has not delivered yet
  buffer,           \* r.buffer
  lines,            \* the lines ReadLine has returned, in order
  rerr,             \* the error ReadLine returned at last: "" / EOF / failure
  \* ---- CopilotLLM: New, ensureStarted, Close ----
  started,          \* c.started
  cmu,              \* the user holding c.mu, 0 if none
  cpc,              \* position of each user inside GenerateContent or Close
  calls,            \* GenerateContent and Close calls begun so far
  clog,             \* the calls made to client.Start and client.Stop, in order
  handlers,         \* the names registered in config.ToolHandlers
  convLog,          \* the convertTools call of the latest request, if it made one
  cyield,           \* what each user's current GenerateContent call has yielded
  csess,            \* sessions created by each user's current call
  clisten,          \* listeners subscribed by each user's current call
  cret,             \* what each user's last Close returned
  \* ---- formatPrompt ----
  contents,         \* the contents argument
  fpc,              \* position of the call: idle / call / done
  prompt            \* the string returned

authVars == <<apc, deviceLog, aret>>

pollVars == <<ppc, initInterval, currentInterval, clock, nextTick, pctx, pret,
              reqTimes, respLog, lateCheck, deviceCode, reqCodes, authVars>>

keyVars == <<token, copilotAPIKey, apiKeyExpiresAt, know, writer, kpc, kret,
             kpath, exchSent, exchLog,
            kchecked>>

genIn == <<transport, cfgStreaming, stream, chanCap>>

genVars == <<genIn, streaming, ended, gpc, gctx, eventCh, receivedFinalMessage,
             subscribed, teardown, lateFragments, sent, emitted, observed,
             yielded>>

sseVars == <<input, unread, buffer, lines, rerr>>

clientVars == <<started, cmu, cpc, calls, clog, handlers, convLog, cyield,
                csess, clisten, cret>>

promptVars == <<contents, fpc, prompt>>

vars == <<pollVars, keyVars, genVars, sseVars, clientVars, promptVars>>

\* what the actions of one group leave alone
notPoll == <<keyVars, genVars, sseVars, clientVars, promptVars>>

notKey == <<pollVars, genVars, sseVars, clientVars, promptVars>>

notGen == <<pollVars, keyVars, sseVars, clientVars, promptVars>>

notSSE == <<pollVars, keyVars, genVars, clientVars, promptVars>>

notClient == <<pollVars, keyVars, genVars, sseVars, promptVars>>

notPrompt == <<pollVars, keyVars, genVars, sseVars, clientVars>>

----------------------------------------------------------------------------
(* Bounds *)
MaxPolls == 4          \* token-endpoint requests per PollForAccessToken run
MaxInitInterval == 2   \* largest interval argument explored
NumCallers == 2        \* concurrent callers of ensureAPIKey
MaxTime == 3           \* last instant the ensureAPIKey clock reaches
MaxExchanges == 2      \* exchange requests sent per run
MaxQueueCap == 2       \* largest capacity of eventCh tried (100 in the source)
NumUsers == 2          \* goroutines calling GenerateContent and Close
MaxCalls == 3          \* GenerateContent and Close calls per instance
MaxBytes == 4          \* longest response body
MaxEvents == 3         \* session events fired / stream lines read per run
MaxContents == 3       \* longest contents list given to formatPrompt

----------------------------------------------------------------------------
(* Strings as word sequences *)

\* mutant of Contains: no error text is recognised
ContainsNever(s, w) == FALSE

Contains(s, w) == \E i \in 1..Len(s) : s[i] = w

HasPrefix(s, w) == Len(s) >= 1 /\ s[1] = w

Last(s) == s[Len(s)]

----------------------------------------------------------------------------
(* Token endpoint *)

StatusOK == 200

SlowDownIncrement == 5

Words == {"authorization_pending", "slow_down", "access_denied"}

\* response bodies / error texts the environment can send
Texts == {<<>>} \cup {<<w>> : w \in Words}

\* ctx.Err() of a cancelled context
CtxErr == <<"context canceled">>

TokenResponses ==
       [kind : {"transport"}, status : {0}, text : {<<>>, CtxErr},
        error : {<<>>}, access_token : {<<>>}]
  \cup [kind : {"http"}, status : {400}, text : Texts, error : {<<>>},
        access_token : {<<>>}]
  \cup [kind : {"badjson"}, status : {StatusOK}, text : {<<>>}, error : {<<>>},
        access_token : {<<>>}]
  \cup [kind : {"json"}, status : {StatusOK}, text : {<<>>}, error : Texts,
        access_token : {<<>>, <<"gho_tok">>}]

NoErr == <<>>

\* a.httpClient.Do(req) on a request built with NewRequestWithContext: with
\* ctx cancelled the client fails with the context's error, and only then
DoOutcome(r, cancelled) ==
  (r.kind = "transport" /\ r.text = CtxErr) <=> cancelled

\* checkAccessToken: the (token, err) pair it returns for a response
checkAccessToken(r) ==
  IF r.kind = "transport"
    THEN [token |-> <<>>, err |-> <<"failed to send request:">> \o r.text]
  ELSE IF r.status # StatusOK
    THEN [token |-> <<>>,
          err |-> <<"access token request failed with status">> \o r.text]
  ELSE IF r.kind = "badjson"
    THEN [token |-> <<>>, err |-> <<"failed to decode response:">>]
  ELSE IF r.error # <<>>
    THEN [token |-> <<>>, err |-> r.error]
  ELSE [token |-> r.access_token, err |-> NoErr]

----------------------------------------------------------------------------
(* PollForAccessToken *)

\* a call of PollForAccessToken by the application, or a call of Authenticate
PollInit ==
  /\ apc \in {"none", "device"}
  /\ ppc = (IF apc = "none" THEN "start" ELSE "idle")
  /\ initInterval \in 0..MaxInitInterval
  /\ apc = "device" => initInterval = 0
  /\ deviceCode = (IF apc = "none" THEN <<"dc0">> ELSE <<>>)
  /\ reqCodes = <<>>
  /\ deviceLog = <<>>
  /\ aret = [token |-> <<>>, err |-> NoErr]
  /\ currentInterval = 0
  /\ clock = 0
  /\ nextTick = 0
  /\ pctx = FALSE
  /\ pret = [token |-> <<>>, err |-> NoErr]
  /\ reqTimes = <<>>
  /\ respLog = <<>>
  /\ lateCheck = FALSE

PollIdle ==
  /\ ppc = "idle"
  /\ apc = "none"
  /\ deviceCode = <<>>
  /\ reqCodes = <<>>
  /\ deviceLog = <<>>
  /\ aret = [token |-> <<>>, err |-> NoErr]
  /\ initInterval = 0
  /\ currentInterval = 0
  /\ clock = 0
  /\ nextTick = 0
  /\ pctx = FALSE
  /\ pret = [token |-> <<>>, err |-> NoErr]
  /\ reqTimes = <<>>
  /\ respLog = <<>>
  /\ lateCheck = FALSE

\* currentInterval := interval seconds; time.NewTicker panics on a
\* non-positive duration
PollStart ==
  /\ ppc = "start"
  /\ IF initInterval <= 0
       THEN /\ ppc' = "panic"
            /\ UNCHANGED <<currentInterval, nextTick>>
       ELSE /\ ppc' = "select"
            /\ currentInterval' = initInterval
            /\ nextTick' = clock + initInterval
  /\ UNCHANGED <<initInterval, clock, pctx, pret, reqTimes, respLog, lateCheck,
                 deviceCode, reqCodes, authVars, notPoll>>

\* the caller cancels ctx
PollCancel ==
  /\ ppc \in {"start", "select"} \/ apc = "device"
  /\ ~pctx
  /\ pctx' = TRUE
  /\ UNCHANGED <<ppc, initInterval, currentInterval, clock, nextTick, pret,
                 reqTimes, respLog, lateCheck, deviceCode, reqCodes, authVars, notPoll>>

\* the select blocks until the ticker is due
PollWait ==
  /\ ppc = "select"
  /\ ~pctx
  /\ clock < nextTick
  /\ clock' = nextTick
  /\ UNCHANGED <<ppc, initInterval, currentInterval, nextTick, pctx, pret,
                 reqTimes, respLog, lateCheck, deviceCode, reqCodes, authVars, notPoll>>

\* case <-ctx.Done()
PollCtxDone ==
  /\ ppc = "select"
  /\ pctx
  /\ ppc' = "done"
  /\ pret' = [token |-> <<>>, err |-> CtxErr]
  /\ UNCHANGED <<initInterval, currentInterval, clock, nextTick, pctx,
                 reqTimes, respLog, lateCheck, deviceCode, reqCodes, authVars, notPoll>>

\* mutant of Backoff: the increment is applied to the initial interval
BackoffFromInitial(cur) == initInterval + SlowDownIncrement

\* currentInterval += 5 * time.Second
Backoff(cur) == cur + SlowDownIncrement

\* mutant of KeepTicking: the ticker falls back to the initial interval
KeepTickingInitial(tick, cur) == tick + initInterval

\* continue: the ticker keeps its period, the next tick is one period later
KeepTicking(tick, cur) == tick + cur

\* mutant of PollTick: a success response without a token ends the loop
PollTickReturnsEmpty(r) ==
  /\ ppc = "select"
  /\ clock >= nextTick
  /\ Len(reqTimes) < MaxPolls
  /\ DoOutcome(r, pctx)
  /\ reqTimes' = Append(reqTimes, clock)
  /\ respLog' = Append(respLog, r)
  /\ lateCheck' = (lateCheck \/ pctx)
  /\ LET res == checkAccessToken(r) IN
       IF res.err # NoErr
         THEN IF Contains(res.err, "authorization_pending")
                THEN /\ nextTick' = KeepTicking(nextTick, currentInterval)
                     /\ UNCHANGED <<ppc, currentInterval, pret>>
              ELSE IF Contains(res.err, "slow_down")
                THEN /\ currentInterval' = Backoff(currentInterval)
                     /\ nextTick' = clock + currentInterval'
                     /\ UNCHANGED <<ppc, pret>>
              ELSE /\ ppc' = "done"
                   /\ pret' = res
                   /\ UNCHANGED <<currentInterval, nextTick>>
       ELSE IF res.token # <<>>
         THEN /\ ppc' = "done"
              /\ pret' = res
              /\ UNCHANGED <<currentInterval, nextTick>>
       ELSE /\ ppc' = "done"
            /\ pret' = res
            /\ UNCHANGED <<currentInterval, nextTick>>
  /\ reqCodes' = Append(reqCodes, deviceCode)
  /\ UNCHANGED <<initInterval, clock, pctx, deviceCode, authVars, notPoll>>

\* case <-ticker.C, the endpoint answering r
PollTick(r) ==
  /\ ppc = "select"
  /\ clock >= nextTick
  /\ Len(reqTimes) < MaxPolls
  /\ DoOutcome(r, pctx)
  /\ reqTimes' = Append(reqTimes, clock)
  /\ respLog' = Append(respLog, r)
  /\ lateCheck' = (lateCheck \/ pctx)
  /\ LET res == checkAccessToken(r) IN
       IF res.err # NoErr
         THEN IF Contains(res.err, "authorization_pending")
                THEN /\ nextTick' = KeepTicking(nextTick, currentInterval)
                     /\ UNCHANGED <<ppc, currentInterval, pret>>
              ELSE IF Contains(res.err, "slow_down")
                THEN /\ currentInterval' = Backoff(currentInterval)
                     /\ nextTick' = clock + currentInterval'
                     /\ UNCHANGED <<ppc, pret>>
              ELSE /\ ppc' = "done"
                   /\ pret' = res
                   /\ UNCHANGED <<currentInterval, nextTick>>
       ELSE IF res.token # <<>>
         THEN /\ ppc' = "done"
              /\ pret' = res
              /\ UNCHANGED <<currentInterval, nextTick>>
       ELSE /\ nextTick' = KeepTicking(nextTick, currentInterval)
            /\ UNCHANGED <<ppc, currentInterval, pret>>
  /\ reqCodes' = Append(reqCodes, deviceCode)
  /\ UNCHANGED <<initInterval, clock, pctx, deviceCode, authVars, notPoll>>

----------------------------------------------------------------------------
(* StartDeviceFlow and Authenticate *)

\* what the device-code endpoint can answer
DeviceResponses ==
       [kind : {"transport"}, status : {0}, text : {<<>>, CtxErr},
        device_code : {<<>>}, interval : {0}, expires_in : {0}]
  \cup [kind : {"http"}, status : {400}, text : {<<>>}, device_code : {<<>>},
        interval : {0}, expires_in : {0}]
  \cup [kind : {"badjson"}, status : {StatusOK}, text : {<<>>},
        device_code : {<<>>}, interval : {0}, expires_in : {0}]
  \cup [kind : {"json"}, status : {StatusOK}, text : {<<>>},
        device_code : {<<"dc1">>, <<"dc2">>}, interval : 0..MaxInitInterval,
        expires_in : {1}]

\* StartDeviceFlow: the error it returns for a response, NoErr on success
StartDeviceFlow(d) ==
  IF d.kind = "transport" THEN <<"failed to send request:">> \o d.text
  ELSE IF d.status # StatusOK THEN <<"device code request failed with status">>
  ELSE IF d.kind = "badjson" THEN <<"failed to decode response:">>
  ELSE NoErr

\* mutant of AuthStart: a failed device-code request is sent again
AuthStartRetries(d) ==
  /\ apc = "device"
  /\ Len(deviceLog) < 2
  /\ DoOutcome(d, pctx)
  /\ deviceLog' = Append(deviceLog, d)
  /\ IF StartDeviceFlow(d) # NoErr
       THEN UNCHANGED <<apc, aret, ppc, initInterval, deviceCode>>
       ELSE /\ apc' = "polling"
            /\ ppc' = "start"
            /\ deviceCode' = d.device_code
            /\ initInterval' = d.interval
            /\ UNCHANGED aret
  /\ UNCHANGED <<currentInterval, clock, nextTick, pctx, pret, reqTimes,
                 respLog, lateCheck, reqCodes, notPoll>>

\* Authenticate calls StartDeviceFlow and, when it succeeds, calls
\* PollForAccessToken(ctx, deviceResp.DeviceCode, deviceResp.Interval)
AuthStart(d) ==
  /\ apc = "device"
  /\ DoOutcome(d, pctx)
  /\ deviceLog' = Append(deviceLog, d)
  /\ IF StartDeviceFlow(d) # NoErr
       THEN /\ apc' = "done"
            /\ aret' = [token |-> <<>>,
                        err |-> <<"failed to start device flow:">>
                                  \o StartDeviceFlow(d)]
            /\ UNCHANGED <<ppc, initInterval, deviceCode>>
       ELSE /\ apc' = "polling"
            /\ ppc' = "start"
            /\ deviceCode' = d.device_code
            /\ initInterval' = d.interval
            /\ UNCHANGED aret
  /\ UNCHANGED <<currentInterval, clock, nextTick, pctx, pret, reqTimes,
                 respLog, lateCheck, reqCodes, notPoll>>

\* PollForAccessToken has returned to Authenticate
AuthReturn ==
  /\ apc = "polling"
  /\ ppc = "done"
  /\ apc' = "done"
  /\ aret' = (IF pret.err # NoErr
                THEN [token |-> <<>>,
                      err |-> <<"failed to get access token:">> \o pret.err]
                ELSE [token |-> pret.token, err |-> NoErr])
  /\ UNCHANGED <<ppc, initInterval, currentInterval, clock, nextTick, pctx, pret,
                 reqTimes, respLog, lateCheck, deviceCode, reqCodes, deviceLog,
                 notPoll>>

PollNext ==
  \/ PollStart
  \/ PollCancel
  \/ PollWait
  \/ PollCtxDone
  \/ \E r \in TokenResponses : PollTick(r)
  \/ \E d \in DeviceResponses : AuthStart(d)
  \/ AuthReturn


----------------------------------------------------------------------------
(* ensureAPIKey *)

Callers == 1..NumCallers

ZeroTime == 0

Tokens == {<<"github_pat_", "1234">>, <<"gho_", "1234">>,
           <<"prefix_", "github_pat_", "suffix">>}

ExchangeResponses ==
       [kind : {"transport", "badjson"}, status : {0}, token : {<<>>},
        expires_at : {0}]
  \cup [kind : {"http"}, status : {401}, token : {<<>>}, expires_at : {0}]
  \cup [kind : {"json"}, status : {StatusOK}, token : {<<>>, <<"tid=1">>},
        expires_at : {0, 2, MaxTime + 1}]

\* time.Unix(sec, 0)
TimeUnix(sec) == sec

\* mutant of isPAT: no token is classified as direct
isPATNever(t) == FALSE

\* the structural check for a personal access token
isPAT(t) == HasPrefix(t, "github_pat_")

PATValidity == 315360000

\* the expiry recorded for a token used directly
PATExpiry(now) == now + PATValidity

\* mutant of Valid: the expiry comparison is reversed
ValidReversed(key, expiry, now) == key # <<>> /\ expiry < now

\* c.copilotAPIKey != "" && time.Now().Before(c.apiKeyExpiresAt)
Valid(key, expiry, now) == key # <<>> /\ now < expiry

KeyInit ==
  /\ token \in Tokens
  /\ copilotAPIKey = <<>>
  /\ apiKeyExpiresAt = ZeroTime
  /\ know = 1
  /\ writer = 0
  /\ kpc = [p \in Callers |-> "idle"]
  /\ kret = [p \in Callers |-> "none"]
  /\ kpath = [p \in Callers |-> "none"]
  /\ exchSent = 0
  /\ exchLog = <<>>
  /\ kchecked = 0

KeyIdle ==
  /\ token = <<>>
  /\ copilotAPIKey = <<>>
  /\ apiKeyExpiresAt = ZeroTime
  /\ know = 0
  /\ writer = 0
  /\ kpc = <<>>
  /\ kret = <<>>
  /\ kpath = <<>>
  /\ exchSent = 0
  /\ exchLog = <<>>
  /\ kchecked = 0

\* a caller enters ensureAPIKey
KeyCall(p) ==
  /\ kpc[p] = "idle"
  /\ kpc' = [kpc EXCEPT ![p] = "rcheck"]
  /\ kret' = [kret EXCEPT ![p] = "none"]
  /\ kpath' = [kpath EXCEPT ![p] = "none"]
  /\ UNCHANGED <<token, copilotAPIKey, apiKeyExpiresAt, know, writer, exchSent,
                 exchLog, kchecked, notKey>>

\* RLock; validity check; RUnlock
KeyFastPath(p) ==
  /\ kpc[p] = "rcheck"
  /\ writer = 0
  /\ IF Valid(copilotAPIKey, apiKeyExpiresAt, know)
       THEN /\ kpc' = [kpc EXCEPT ![p] = "idle"]
            /\ kret' = [kret EXCEPT ![p] = "nil"]
            /\ kpath' = [kpath EXCEPT ![p] = "fast"]
       ELSE /\ kpc' = [kpc EXCEPT ![p] = "wlock"]
            /\ UNCHANGED <<kret, kpath>>
  /\ UNCHANGED <<token, copilotAPIKey, apiKeyExpiresAt, know, writer, exchSent,
                 exchLog, kchecked, notKey>>

\* mutant of Recheck: no second check once the exclusive lock is held
NoRecheck(key, expiry, now) == FALSE

\* the double check after acquiring the write lock
Recheck(key, expiry, now) == Valid(key, expiry, now)

\* mutant of KeySlowPath: the exchange request is sent without holding c.mu
KeySlowPathUnlocked(p) ==
  /\ kpc[p] = "wlock"
  /\ writer = 0
  /\ IF Recheck(copilotAPIKey, apiKeyExpiresAt, know)
       THEN /\ kpc' = [kpc EXCEPT ![p] = "idle"]
            /\ kret' = [kret EXCEPT ![p] = "nil"]
            /\ kpath' = [kpath EXCEPT ![p] = "recheck"]
            /\ UNCHANGED <<copilotAPIKey, apiKeyExpiresAt, writer, exchSent>>
     ELSE IF isPAT(token)
       THEN /\ copilotAPIKey' = token
            /\ apiKeyExpiresAt' = PATExpiry(know)
            /\ kpc' = [kpc EXCEPT ![p] = "idle"]
            /\ kret' = [kret EXCEPT ![p] = "nil"]
            /\ kpath' = [kpath EXCEPT ![p] = "direct"]
            /\ UNCHANGED <<writer, exchSent>>
     ELSE /\ exchSent < MaxExchanges
          /\ writer' = 0
          /\ exchSent' = exchSent + 1
          /\ kpc' = [kpc EXCEPT ![p] = "exchange"]
          /\ UNCHANGED <<copilotAPIKey, apiKeyExpiresAt, kret, kpath>>
  /\ kchecked' = (IF kpc'[p] = "exchange" THEN know ELSE 0)
  /\ UNCHANGED <<token, know, exchLog, notKey>>

\* Lock; double check; direct token or exchange request
KeySlowPath(p) ==
  /\ kpc[p] = "wlock"
  /\ writer = 0
  /\ IF Recheck(copilotAPIKey, apiKeyExpiresAt, know)
       THEN /\ kpc' = [kpc EXCEPT ![p] = "idle"]
            /\ kret' = [kret EXCEPT ![p] = "nil"]
            /\ kpath' = [kpath EXCEPT ![p] = "recheck"]
            /\ UNCHANGED <<copilotAPIKey, apiKeyExpiresAt, writer, exchSent>>
     ELSE IF isPAT(token)
       THEN /\ copilotAPIKey' = token
            /\ apiKeyExpiresAt' = PATExpiry(know)
            /\ kpc' = [kpc EXCEPT ![p] = "idle"]
            /\ kret' = [kret EXCEPT ![p] = "nil"]
            /\ kpath' = [kpath EXCEPT ![p] = "direct"]
            /\ UNCHANGED <<writer, exchSent>>
     ELSE /\ exchSent < MaxExchanges
          /\ writer' = p
          /\ exchSent' = exchSent + 1
          /\ kpc' = [kpc EXCEPT ![p] = "exchange"]
          /\ UNCHANGED <<copilotAPIKey, apiKeyExpiresAt, kret, kpath>>
  /\ kchecked' = (IF kpc'[p] = "exchange" THEN know ELSE 0)
  /\ UNCHANGED <<token, know, exchLog, notKey>>

\* mutant of KeyExchangeDone: the cache is written before the response is
\* looked at
KeyExchangeDoneStoresFirst(p, r) ==
  /\ kpc[p] = "exchange"
  /\ writer = p
  /\ exchLog' = Append(exchLog, r)
  /\ writer' = 0
  /\ kpc' = [kpc EXCEPT ![p] = "idle"]
  /\ kpath' = [kpath EXCEPT ![p] = "exchange"]
  /\ copilotAPIKey' = r.token
  /\ apiKeyExpiresAt' = TimeUnix(r.expires_at)
  /\ kret' = [kret EXCEPT ![p] =
                IF r.kind = "json" /\ r.status = StatusOK THEN "nil" ELSE "err"]
  /\ kchecked' = 0
  /\ UNCHANGED <<token, know, exchSent, notKey>>

\* the exchange endpoint answers r; the deferred Unlock runs
KeyExchangeDone(p, r) ==
  /\ kpc[p] = "exchange"
  /\ writer = p
  /\ exchLog' = Append(exchLog, r)
  /\ writer' = 0
  /\ kpc' = [kpc EXCEPT ![p] = "idle"]
  /\ kpath' = [kpath EXCEPT ![p] = "exchange"]
  /\ IF r.kind = "json" /\ r.status = StatusOK
       THEN /\ copilotAPIKey' = r.token
            /\ apiKeyExpiresAt' = TimeUnix(r.expires_at)
            /\ kret' = [kret EXCEPT ![p] = "nil"]
       ELSE /\ kret' = [kret EXCEPT ![p] = "err"]
            /\ UNCHANGED <<copilotAPIKey, apiKeyExpiresAt>>
  /\ kchecked' = 0
  /\ UNCHANGED <<token, know, exchSent, notKey>>

\* time passes
KeyTick ==
  /\ know < MaxTime
  /\ know' = know + 1
  /\ UNCHANGED <<token, copilotAPIKey, apiKeyExpiresAt, writer, kpc, kret, kpath,
                 exchSent, exchLog, kchecked, notKey>>

KeyNext ==
  \/ \E p \in Callers : KeyCall(p)
  \/ \E p \in Callers : KeyFastPath(p)
  \/ \E p \in Callers : KeySlowPath(p)
  \/ \E p \in Callers : \E r \in ExchangeResponses : KeyExchangeDone(p, r)
  \/ KeyTick

----------------------------------------------------------------------------
(* GenerateContent: shared pieces *)

\* a nil *string
Nil == "<nil>"

None == <<>>

Some(x) == <<x>>

FinishReasonStop == "STOP"

\* genai.Content{Role: "model", Parts: [text]}
ModelContent(text) == Some([role |-> "model", text |-> text])

\* the items handed to yield: (response, err)
YieldResp(r) == [response |-> Some(r), err |-> None]

YieldErr(e) == [response |-> None, err |-> Some(e)]

GenInit ==
  /\ transport \in {"push", "pull"}
  /\ cfgStreaming \in BOOLEAN
  /\ stream \in BOOLEAN
  /\ transport = "pull" => ~cfgStreaming
  /\ chanCap \in 0..MaxQueueCap
  /\ chanCap = 0 <=> transport = "pull"
  /\ streaming = FALSE
  /\ ended = ""
  /\ gpc = "start"
  /\ gctx = FALSE
  /\ eventCh = <<>>
  /\ receivedFinalMessage = FALSE
  /\ subscribed = FALSE
  /\ teardown = <<>>
  /\ lateFragments = 0
  /\ sent = FALSE
  /\ emitted = 0
  /\ observed = <<>>
  /\ yielded = <<>>

\* mutant of Deferred: the session is not destroyed
DeferredUnsubscribeOnly == <<"unsubscribe">>

\* defer session.Destroy() is registered before defer unsubscribe(), and
\* deferred calls run last registered first
Deferred == <<"unsubscribe", "Destroy">>

\* a return of the iterator runs the deferred calls of the push bridge
RunDeferred(t) == IF transport = "push" THEN t \o Deferred ELSE t

\* the caller cancels ctx
GenCancel ==
  /\ gpc # "done"
  /\ ~gctx
  /\ gctx' = TRUE
  /\ UNCHANGED <<genIn, streaming, ended, gpc, eventCh, receivedFinalMessage,
                 subscribed, teardown, sent, emitted, observed, yielded, lateFragments, notGen>>

\* mutant of YieldReturn: the result of yield is not looked at
YieldReturnIgnored(more) ==
  /\ gpc = "yield"
  /\ gpc' = "loop"
  /\ ended' = IF more THEN ended ELSE "stopped"
  /\ UNCHANGED <<genIn, streaming, gctx, eventCh, receivedFinalMessage,
                 subscribed, teardown, sent, emitted, observed, yielded, lateFragments, notGen>>

\* the caller's loop body finishes and yield returns more: TRUE to go on,
\* FALSE to stop; a return runs the deferred unsubscribe
YieldReturn(more) ==
  /\ gpc = "yield"
  /\ IF more
       THEN gpc' = "loop" /\ UNCHANGED <<subscribed, teardown, ended>>
       ELSE /\ gpc' = "done"
            /\ subscribed' = FALSE
            /\ teardown' = RunDeferred(teardown)
            /\ ended' = "stopped"
  /\ UNCHANGED <<genIn, streaming, gctx, eventCh, receivedFinalMessage, sent,
                 emitted, observed, yielded, lateFragments, notGen>>

\* a yield whose result is ignored: the iterator returns after it
YieldLastReturn ==
  /\ gpc = "yieldlast"
  /\ gpc' = "done"
  /\ subscribed' = FALSE /\ teardown' = RunDeferred(teardown)
  /\ UNCHANGED <<genIn, streaming, ended, gctx, eventCh, receivedFinalMessage, sent,
                 emitted, observed, yielded, lateFragments, notGen>>

----------------------------------------------------------------------------
(* GenerateContent over session events (push) *)

SessionEvents ==
       [type : {"assistant.message_delta"}, content : {Nil}, delta : {Nil, "hi"}]
  \cup [type : {"assistant.message"}, content : {Nil, "hello"}, delta : {Nil}]
  \cup [type : {"session.idle", "tool.execution_start"}, content : {Nil},
        delta : {Nil}]
  \cup [type : {"session.error"}, content : {Nil, "boom"}, delta : {Nil}]

convertEventToResponse(event, partial) ==
  LET text == IF partial /\ event.delta # Nil THEN event.delta
              ELSE IF ~partial /\ event.content # Nil THEN event.content
              ELSE ""
      finish == IF ~partial /\ event.content # Nil THEN FinishReasonStop ELSE ""
  IN [partial |-> partial,
      turnComplete |-> ~partial,
      finish |-> finish,
      content |-> IF text # "" THEN ModelContent(text) ELSE None]

\* the values sent on eventCh
ResultResp(r) == [response |-> Some(r), err |-> None, done |-> FALSE]

ResultDone == [response |-> None, err |-> None, done |-> TRUE]

ResultErr(msg) == [response |-> None, err |-> Some(<<"session error:", msg>>),
                   done |-> FALSE]

\* mutant of Offer: the send does not look at the capacity
OfferUnbounded(ch, x) == Append(ch, x)

\* mutant of Offer: the result is put in front of the waiting ones
OfferFront(ch, x) == IF Len(ch) < chanCap THEN <<x>> \o ch ELSE ch

\* select { case eventCh <- x: default: }
Offer(ch, x) == IF Len(ch) < chanCap THEN Append(ch, x) ELSE ch

\* mutant of EffectiveStreaming: partial fragments whatever was asked
StreamingForced(cfg, arg) == TRUE

\* streaming := c.config.Streaming; if stream { streaming = true }
EffectiveStreaming(cfg, arg) == cfg \/ arg

\* mutant of PushSubscribe: the listener is not registered before the send
PushSubscribeLate ==
  /\ transport = "push"
  /\ gpc = "start"
  /\ subscribed' = FALSE /\ UNCHANGED teardown
  /\ gpc' = "send"
  /\ streaming' = EffectiveStreaming(cfgStreaming, stream)
  /\ UNCHANGED <<genIn, ended, gctx, eventCh, receivedFinalMessage, sent,
                 emitted, observed, yielded, lateFragments, notGen>>

\* the streaming mode is settled, session.On and the deferred calls are
\* registered
PushSubscribe ==
  /\ transport = "push"
  /\ gpc = "start"
  /\ subscribed' = TRUE /\ UNCHANGED teardown
  /\ gpc' = "send"
  /\ streaming' = EffectiveStreaming(cfgStreaming, stream)
  /\ UNCHANGED <<genIn, ended, gctx, eventCh, receivedFinalMessage, sent,
                 emitted, observed, yielded, lateFragments, notGen>>

\* session.Send
PushSend(ok) ==
  /\ transport = "push"
  /\ gpc = "send"
  /\ IF ok
       THEN /\ sent' = TRUE
            /\ gpc' = "loop"
            /\ UNCHANGED <<yielded, ended>>
       ELSE /\ yielded' = Append(yielded, YieldErr(<<"failed to send message:">>))
            /\ gpc' = "yieldlast"
            /\ ended' = "error"
            /\ UNCHANGED sent
  /\ UNCHANGED <<genIn, streaming, gctx, eventCh, receivedFinalMessage,
                 subscribed, teardown, emitted, observed, lateFragments, notGen>>

\* what the listener offers to eventCh for an event: a result, or nothing
ListenerResult(event) ==
  IF event.type = "assistant.message_delta"
    THEN IF streaming /\ event.delta # Nil
           THEN Some(ResultResp(convertEventToResponse(event, TRUE)))
           ELSE None
  ELSE IF event.type = "assistant.message"
    THEN Some(ResultResp(convertEventToResponse(event, FALSE)))
  ELSE IF event.type = "session.idle"
    THEN Some(ResultDone)
  ELSE IF event.type = "session.error"
    THEN Some(ResultErr(IF event.content # Nil THEN event.content
                        ELSE "unknown error"))
  ELSE None

\* the session invokes the listener with an event, on its own goroutine
Listener(event) ==
  /\ transport = "push"
  /\ subscribed
  /\ sent
  /\ emitted < MaxEvents
  /\ emitted' = emitted + 1
  /\ receivedFinalMessage' =
       (receivedFinalMessage \/ event.type = "assistant.message")
  /\ LET offered == ListenerResult(event) IN
       /\ eventCh' = IF offered = None THEN eventCh ELSE Offer(eventCh, offered[1])
       /\ observed' = Append(observed, [type |-> event.type,
                                        event |-> event,
                                        result |-> offered,
                                        offered |-> offered # None,
                                        queued |-> eventCh' # eventCh])
  /\ UNCHANGED <<genIn, streaming, ended, gpc, gctx, subscribed, teardown, sent, yielded,
                 lateFragments, notGen>>

\* case <-ctx.Done()
PushCtxDone ==
  /\ transport = "push"
  /\ gpc = "loop"
  /\ gctx
  /\ yielded' = Append(yielded, YieldErr(CtxErr))
  /\ gpc' = "yieldlast"
  /\ ended' = "cancel"
  /\ UNCHANGED <<genIn, streaming, gctx, eventCh, receivedFinalMessage,
                 subscribed, teardown, sent, emitted, observed, lateFragments, notGen>>

\* case result := <-eventCh
PushReceive ==
  /\ transport = "push"
  /\ gpc = "loop"
  /\ eventCh # <<>>
  /\ eventCh' = Tail(eventCh)
  /\ LET result == Head(eventCh) IN
       IF result.err # None
         THEN /\ yielded' = Append(yielded, YieldErr(result.err[1]))
              /\ gpc' = "yieldlast"
              /\ ended' = "error"
              /\ UNCHANGED <<subscribed, teardown>>
       ELSE IF result.done
         THEN /\ gpc' = "done"
              /\ subscribed' = FALSE /\ teardown' = RunDeferred(teardown)
              /\ ended' = "done"
              /\ UNCHANGED yielded
       ELSE IF result.response # None
         THEN /\ yielded' = Append(yielded, YieldResp(result.response[1]))
              /\ gpc' = "yield"
              /\ UNCHANGED <<subscribed, teardown, ended>>
       ELSE UNCHANGED <<gpc, subscribed, teardown, yielded, ended>>
  /\ UNCHANGED <<genIn, streaming, gctx, receivedFinalMessage, sent, emitted,
                 observed, lateFragments, notGen>>

----------------------------------------------------------------------------
(* GenerateContent over an SSE stream (pull) *)

\* the lines ReadLine can return: blank, a non-data field, or a data frame
\* whose payload is [DONE], undecodable, or a chunk
StreamLines ==
       [prefix : {"", "event: "}, text : {""}, choices : {0}, content : {""},
        finish_reason : {""}]
  \cup [prefix : {"data: "}, text : {"[DONE]", "{malformed"}, choices : {0},
        content : {""}, finish_reason : {""}]
  \cup [prefix : {"data: "}, text : {"{chunk}"}, choices : {0}, content : {""},
        finish_reason : {""}]
  \cup [prefix : {"data: "}, text : {"{chunk}"}, choices : {1},
        content : {"", "hi"}, finish_reason : {"", "stop", "tool_calls"}]

\* mutant of UnmarshalOK: every payload is taken for a chunk
UnmarshalAlwaysOK(line) == TRUE

\* json.Unmarshal succeeds on a JSON object only
UnmarshalOK(line) == line.text = "{chunk}"

mapFinishReason(reason) ==
  IF reason = "stop" THEN FinishReasonStop
  ELSE IF reason = "length" THEN "MAX_TOKENS"
  ELSE IF reason = "content_filter" THEN "SAFETY"
  ELSE "OTHER"

\* mutant of convertChunk: Partial is not reset on the finishing chunk
convertChunkStaysPartial(chunk) ==
  LET finished == chunk.choices > 0 /\ chunk.finish_reason # "" IN
    [partial |-> TRUE,
     turnComplete |-> finished,
     finish |-> IF finished THEN mapFinishReason(chunk.finish_reason) ELSE "",
     content |-> IF chunk.choices > 0 /\ chunk.content # ""
                   THEN ModelContent(chunk.content) ELSE None]

convertChunk(chunk) ==
  LET finished == chunk.choices > 0 /\ chunk.finish_reason # "" IN
    [partial |-> ~finished,
     turnComplete |-> finished,
     finish |-> IF finished THEN mapFinishReason(chunk.finish_reason) ELSE "",
     content |-> IF chunk.choices > 0 /\ chunk.content # ""
                   THEN ModelContent(chunk.content) ELSE None]

\* mutant of FinalMarker: the completion marker does not complete the turn
FinalMarkerOpen == [partial |-> FALSE, turnComplete |-> FALSE, finish |-> "",
                    content |-> None]

\* &model.LLMResponse{TurnComplete: true}
FinalMarker == [partial |-> FALSE, turnComplete |-> TRUE, finish |-> "",
                content |-> None]

\* httpClient.Do and the status check
PullRequest(outcome) ==
  /\ transport = "pull"
  /\ gpc = "start"
  /\ stream
  /\ gctx => outcome = "transport"
  /\ IF outcome = "ok"
       THEN /\ gpc' = "loop"
            /\ sent' = TRUE
            /\ UNCHANGED <<yielded, ended>>
       ELSE /\ gpc' = "yieldlast"
            /\ ended' = "error"
            /\ yielded' = Append(yielded,
                 YieldErr(IF outcome = "status"
                            THEN <<"request failed with status">>
                            ELSE <<"failed to send request:">>))
            /\ UNCHANGED sent
  /\ UNCHANGED <<genIn, streaming, gctx, eventCh, receivedFinalMessage,
                 subscribed, teardown, emitted, observed, lateFragments, notGen>>

\* one iteration of the read loop that finds ctx cancelled
PullCtxDone ==
  /\ transport = "pull"
  /\ gpc = "loop"
  /\ gctx
  /\ yielded' = Append(yielded, YieldErr(CtxErr))
  /\ gpc' = "yieldlast"
  /\ ended' = "cancel"
  /\ UNCHANGED <<genIn, streaming, gctx, eventCh, receivedFinalMessage,
                 subscribed, teardown, sent, emitted, observed, lateFragments, notGen>>

\* mutant of PullCheck: the loop reads on without looking at ctx
PullCheckSkipped ==
  /\ transport = "pull"
  /\ gpc = "loop"
  /\ gpc' = "read"
  /\ UNCHANGED <<genIn, streaming, ended, gctx, eventCh, receivedFinalMessage,
                 subscribed, teardown, sent, emitted, observed, yielded,
                 lateFragments, notGen>>

\* the top of a loop iteration with ctx not cancelled: the select takes
\* its default branch and ReadLine is called
PullCheck ==
  /\ transport = "pull"
  /\ gpc = "loop"
  /\ ~gctx
  /\ gpc' = "read"
  /\ UNCHANGED <<genIn, streaming, ended, gctx, eventCh, receivedFinalMessage,
                 subscribed, teardown, sent, emitted, observed, yielded,
                 lateFragments, notGen>>

\* mutant of PullLine: a payload that does not parse ends the sequence
PullLineFailsOnMalformed(line) ==
  /\ transport = "pull"
  /\ gpc = "read"
  /\ emitted < MaxEvents
  /\ emitted' = emitted + 1
  /\ observed' = Append(observed, [type |-> "line", line |-> line])
  /\ IF line.prefix # "data: "
       THEN gpc' = "loop" /\ UNCHANGED <<yielded, ended>>
     ELSE IF line.text = "[DONE]"
       THEN gpc' = "final" /\ UNCHANGED <<yielded, ended>>
     ELSE IF ~UnmarshalOK(line)
       THEN /\ yielded' = Append(yielded, YieldErr(<<"failed to parse chunk:">>))
            /\ gpc' = "yieldlast"
            /\ ended' = "error"
     ELSE /\ yielded' = Append(yielded, YieldResp(convertChunk(line)))
          /\ gpc' = "yield"
          /\ UNCHANGED ended
  /\ lateFragments' = (IF gctx /\ Len(yielded') > Len(yielded) /\ gpc' = "yield"
                         THEN lateFragments + 1 ELSE lateFragments)
  /\ UNCHANGED <<genIn, streaming, gctx, eventCh, receivedFinalMessage,
                 subscribed, teardown, sent, notGen>>

\* one iteration of the read loop in which ReadLine returns a line
PullLine(line) ==
  /\ transport = "pull"
  /\ gpc = "read"
  /\ emitted < MaxEvents
  /\ emitted' = emitted + 1
  /\ observed' = Append(observed, [type |-> "line", line |-> line])
  /\ IF line.prefix # "data: "
       THEN gpc' = "loop" /\ UNCHANGED yielded
     ELSE IF line.text = "[DONE]"
       THEN gpc' = "final" /\ UNCHANGED yielded
     ELSE IF ~UnmarshalOK(line)
       THEN gpc' = "loop" /\ UNCHANGED yielded
     ELSE /\ yielded' = Append(yielded, YieldResp(convertChunk(line)))
          /\ gpc' = "yield"
  /\ lateFragments' = (IF gctx /\ Len(yielded') > Len(yielded) /\ gpc' = "yield"
                         THEN lateFragments + 1 ELSE lateFragments)
  /\ UNCHANGED <<genIn, streaming, ended, gctx, eventCh, receivedFinalMessage,
                 subscribed, teardown, sent, notGen>>

\* one iteration of the read loop in which ReadLine returns an error
PullReadEnd(eof) ==
  /\ transport = "pull"
  /\ gpc = "read"
  /\ IF eof
       THEN gpc' = "final" /\ UNCHANGED <<yielded, ended>>
       ELSE /\ yielded' = Append(yielded, YieldErr(<<"failed to read stream:">>))
            /\ gpc' = "yieldlast"
            /\ ended' = "error"
  /\ UNCHANGED <<genIn, streaming, gctx, eventCh, receivedFinalMessage,
                 subscribed, teardown, sent, emitted, observed, lateFragments, notGen>>

\* yield(&model.LLMResponse{TurnComplete: true}, nil)
PullFinal ==
  /\ transport = "pull"
  /\ gpc = "final"
  /\ yielded' = Append(yielded, YieldResp(FinalMarker))
  /\ gpc' = "yieldlast"
  /\ ended' = "done"
  /\ lateFragments' = (IF gctx THEN lateFragments + 1 ELSE lateFragments)
  /\ UNCHANGED <<genIn, streaming, gctx, eventCh, receivedFinalMessage,
                 subscribed, teardown, sent, emitted, observed, notGen>>

\* the bodies a non-streaming chat completion can decode to
ChatResponses ==
       [choices : {0}, role : {""}, content : {""}, finish_reason : {""}]
  \cup [choices : {1}, role : {"assistant"}, content : {"", "hello"},
        finish_reason : {"", "stop"}]

convertResponse(resp, partial) ==
  [partial |-> partial,
   turnComplete |-> ~partial,
   finish |-> IF resp.choices > 0 /\ resp.finish_reason # ""
                THEN mapFinishReason(resp.finish_reason) ELSE "",
   content |-> IF resp.choices > 0
                 THEN Some([role |-> resp.role, text |-> resp.content])
                 ELSE None]

\* generateNonStreamingContent: one request, one yield
NonStreaming(outcome, resp) ==
  /\ transport = "pull"
  /\ gpc = "start"
  /\ ~stream
  /\ gctx => outcome = "transport"
  /\ gpc' = "yieldlast"
  /\ IF outcome = "ok"
       THEN /\ yielded' = Append(yielded, YieldResp(convertResponse(resp, FALSE)))
            /\ ended' = "done"
       ELSE /\ yielded' = Append(yielded,
                 YieldErr(IF outcome = "status"
                            THEN <<"request failed with status">>
                          ELSE IF outcome = "badjson"
                            THEN <<"failed to decode response:">>
                          ELSE <<"failed to send request:">>))
            /\ ended' = "error"
  /\ UNCHANGED <<genIn, streaming, gctx, eventCh, receivedFinalMessage,
                 subscribed, teardown, sent, emitted, observed, lateFragments, notGen>>

ConsumerNext ==
  \/ PushSubscribe
  \/ \E ok \in BOOLEAN : PushSend(ok)
  \/ PushCtxDone
  \/ PushReceive
  \/ \E outcome \in {"ok", "status", "transport"} : PullRequest(outcome)
  \/ PullCtxDone
  \/ PullCheck
  \/ \E line \in StreamLines : PullLine(line)
  \/ \E eof \in BOOLEAN : PullReadEnd(eof)
  \/ PullFinal
  \/ \E outcome \in {"ok", "status", "badjson", "transport"} :
       \E resp \in ChatResponses : NonStreaming(outcome, resp)
  \/ \E more \in BOOLEAN : YieldReturn(more)
  \/ YieldLastReturn

GenNext ==
  \/ ConsumerNext
  \/ \E event \in SessionEvents : Listener(event)
  \/ GenCancel

----------------------------------------------------------------------------
(* sseReader.ReadLine *)

NL == "\n"

Bytes == {"a", " ", NL}

\* unicode.IsSpace on the bytes of the model
IsSpace(b) == b \in {" ", NL}

RECURSIVE TrimLeft(_)
TrimLeft(str) ==
  IF str # <<>> /\ IsSpace(Head(str)) THEN TrimLeft(Tail(str)) ELSE str

RECURSIVE TrimRight(_)
TrimRight(str) ==
  IF str # <<>> /\ IsSpace(Last(str))
    THEN TrimRight(SubSeq(str, 1, Len(str) - 1))
    ELSE str

\* strings.TrimSpace
TrimSpace(str) == TrimRight(TrimLeft(str))

\* bytes.IndexByte(buf, c), counted from 1; 0 when c does not occur
IndexByte(buf, c) ==
  IF \E i \in 1..Len(buf) : buf[i] = c
    THEN CHOOSE i \in 1..Len(buf) :
           buf[i] = c /\ \A j \in 1..(i - 1) : buf[j] # c
    ELSE 0

RECURSIVE BodiesUpTo(_)
BodiesUpTo(n) ==
  IF n = 0 THEN {<<>>}
  ELSE BodiesUpTo(n - 1)
         \cup {Append(b, c) : b \in {x \in BodiesUpTo(n - 1) : Len(x) = n - 1},
                               c \in Bytes}

SSEInit ==
  /\ input \in BodiesUpTo(MaxBytes)
  /\ unread = input
  /\ buffer = <<>>
  /\ lines = <<>>
  /\ rerr = ""

SSEIdle ==
  /\ input = <<>>
  /\ unread = <<>>
  /\ buffer = <<>>
  /\ lines = <<>>
  /\ rerr = "idle"

\* a loop iteration that finds a complete line in the buffer and returns it
ReadLineFromBuffer ==
  /\ rerr = ""
  /\ IndexByte(buffer, NL) > 0
  /\ LET idx == IndexByte(buffer, NL) IN
       /\ lines' = Append(lines, TrimSpace(SubSeq(buffer, 1, idx - 1)))
       /\ buffer' = SubSeq(buffer, idx + 1, Len(buffer))
  /\ UNCHANGED <<input, unread, rerr, notSSE>>

\* a loop iteration that calls r.reader.Read, which delivers the next n
\* bytes with the error err: nil, io.EOF (with or after the last bytes) or
\* a failure
ReadLineFromReader(n, err) ==
  /\ rerr = ""
  /\ IndexByte(buffer, NL) = 0
  /\ n \in 0..Len(unread)
  /\ err = "" => n > 0
  /\ err = "EOF" => n = Len(unread)
  /\ unread' = SubSeq(unread, n + 1, Len(unread))
  /\ LET appended == buffer \o SubSeq(unread, 1, n) IN
       IF err = ""
         THEN /\ buffer' = appended
              /\ UNCHANGED <<lines, rerr>>
       ELSE IF err = "EOF" /\ Len(appended) > 0
         THEN /\ lines' = Append(lines, TrimSpace(appended))
              /\ buffer' = <<>>
              /\ UNCHANGED rerr
       ELSE /\ buffer' = appended
            /\ rerr' = err
            /\ UNCHANGED lines
  /\ UNCHANGED <<input, notSSE>>

SSENext ==
  \/ ReadLineFromBuffer
  \/ \E n \in 0..MaxBytes : \E err \in {"", "EOF", "failure"} :
       ReadLineFromReader(n, err)

----------------------------------------------------------------------------
(* CopilotLLM: New, ensureStarted, Close and the head of GenerateContent *)

Users == 1..NumUsers

ToolNames == {"a", "b"}

\* req.Config.Tools: a list of tools, each a list of function declarations
\* (empty for a tool without declarations)
ToolLists ==
  {<<>>, <<<<>>>>, <<<<"a">>>>, <<<<"b">>>>, <<<<"a", "b">>>>,
   <<<<"a">>, <<"b">>>>, <<<<>>, <<"b", "a">>>>}

RECURSIVE Declarations(_)
\* the function declarations of a tool list in the order of the two loops
Declarations(genaiTools) ==
  IF genaiTools = <<>> THEN <<>>
  ELSE Head(genaiTools) \o Declarations(Tail(genaiTools))

RECURSIVE convertDeclsPartial(_, _)
convertDeclsPartial(decls, acc) ==
  IF decls = <<>> THEN [tools |-> acc, err |-> NoErr]
  ELSE IF Head(decls) \notin handlers
    THEN [tools |-> acc, err |-> <<"no handler found for tool:", Head(decls)>>]
  ELSE convertDeclsPartial(Tail(decls), Append(acc, Head(decls)))

\* mutant of convertTools: the tools converted so far are returned with the
\* error
convertToolsPartial(genaiTools) ==
  convertDeclsPartial(Declarations(genaiTools), <<>>)

RECURSIVE convertDecls(_, _)
convertDecls(decls, acc) ==
  IF decls = <<>> THEN [tools |-> acc, err |-> NoErr]
  ELSE IF Head(decls) \notin handlers
    THEN [tools |-> <<>>, err |-> <<"no handler found for tool:", Head(decls)>>]
  ELSE convertDecls(Tail(decls), Append(acc, Head(decls)))

\* convertTools: (copilotTools, err)
convertTools(genaiTools) == convertDecls(Declarations(genaiTools), <<>>)

\* New: the client is created and not started
ClientInit ==
  /\ started = FALSE
  /\ cmu = 0
  /\ cpc = [p \in Users |-> "idle"]
  /\ calls = 0
  /\ clog = <<>>
  /\ handlers \in SUBSET ToolNames
  /\ convLog = <<>>
  /\ cyield = [p \in Users |-> <<>>]
  /\ csess = [p \in Users |-> 0]
  /\ clisten = [p \in Users |-> 0]
  /\ cret = [p \in Users |-> "none"]

ClientIdle ==
  /\ started = FALSE
  /\ cmu = 0
  /\ cpc = <<>>
  /\ calls = 0
  /\ clog = <<>>
  /\ handlers = {}
  /\ convLog = <<>>
  /\ cyield = <<>>
  /\ csess = <<>>
  /\ clisten = <<>>
  /\ cret = <<>>

\* a user calls GenerateContent (and iterates the result) or Close
ClientCall(p, op) ==
  /\ cpc[p] = "idle"
  /\ calls < MaxCalls
  /\ calls' = calls + 1
  /\ cpc' = [cpc EXCEPT ![p] = IF op = "GenerateContent" THEN "ensure" ELSE "close"]
  /\ cyield' = [cyield EXCEPT ![p] = <<>>]
  /\ csess' = [csess EXCEPT ![p] = 0]
  /\ clisten' = [clisten EXCEPT ![p] = 0]
  /\ cret' = [cret EXCEPT ![p] = "none"]
  /\ UNCHANGED <<started, cmu, clog, handlers, convLog, notClient>>

\* the iterator returns: deferred calls have run
ClientReturn(p) == cpc' = [cpc EXCEPT ![p] = "idle"]

\* mutant of AlreadyStarted: ensureStarted does not look at c.started
AlreadyStartedIgnored == FALSE

\* if c.started { return nil }
AlreadyStarted == started

\* ensureStarted: Lock; return nil if started, else call client.Start
EnsureLock(p) ==
  /\ cpc[p] = "ensure"
  /\ cmu = 0
  /\ IF AlreadyStarted
       THEN cpc' = [cpc EXCEPT ![p] = "tools"] /\ UNCHANGED cmu
       ELSE cpc' = [cpc EXCEPT ![p] = "starting"] /\ cmu' = p
  /\ UNCHANGED <<started, calls, clog, handlers, convLog, cyield, csess,
                 clisten, cret, notClient>>

\* mutant of StartDone: c.started is set whatever client.Start returned
StartDoneAlwaysStarted(p, ok) ==
  /\ cpc[p] = "starting"
  /\ cmu = p
  /\ clog' = Append(clog, [op |-> "Start", ok |-> ok, started |-> started])
  /\ cmu' = 0
  /\ started' = TRUE
  /\ IF ok
       THEN cpc' = [cpc EXCEPT ![p] = "tools"] /\ UNCHANGED cyield
       ELSE /\ cyield' = [cyield EXCEPT ![p] = <<<<"failed to start client:">>>>]
            /\ ClientReturn(p)
  /\ UNCHANGED <<calls, handlers, convLog, csess, clisten, cret, notClient>>

\* client.Start returns; Unlock; on an error GenerateContent yields it and
\* returns
StartDone(p, ok) ==
  /\ cpc[p] = "starting"
  /\ cmu = p
  /\ clog' = Append(clog, [op |-> "Start", ok |-> ok, started |-> started])
  /\ cmu' = 0
  /\ IF ok
       THEN /\ started' = TRUE
            /\ cpc' = [cpc EXCEPT ![p] = "tools"]
            /\ UNCHANGED cyield
       ELSE /\ cyield' = [cyield EXCEPT ![p] = <<<<"failed to start client:">>>>]
            /\ ClientReturn(p)
            /\ UNCHANGED started
  /\ UNCHANGED <<calls, handlers, convLog, csess, clisten, cret, notClient>>

\* the tools of the request are converted, when it has any
ClientConvertTools(p, genaiTools) ==
  /\ cpc[p] = "tools"
  /\ IF Len(genaiTools) > 0
       THEN LET res == convertTools(genaiTools) IN
              /\ convLog' = <<[user |-> p, arg |-> genaiTools, res |-> res]>>
              /\ IF res.err # NoErr
                   THEN /\ cyield' = [cyield EXCEPT ![p] =
                                        <<<<"failed to convert tools:">> \o res.err>>]
                        /\ ClientReturn(p)
                   ELSE /\ cpc' = [cpc EXCEPT ![p] = "create"]
                        /\ UNCHANGED cyield
       ELSE /\ cpc' = [cpc EXCEPT ![p] = "create"]
            /\ convLog' = <<>>
            /\ UNCHANGED cyield
  /\ UNCHANGED <<started, cmu, calls, clog, handlers, csess, clisten, cret,
                 notClient>>

\* c.client.CreateSession
ClientCreateSession(p, ok) ==
  /\ cpc[p] = "create"
  /\ IF ok
       THEN /\ csess' = [csess EXCEPT ![p] = @ + 1]
            /\ cpc' = [cpc EXCEPT ![p] = "session"]
            /\ UNCHANGED cyield
       ELSE /\ cyield' = [cyield EXCEPT ![p] = <<<<"failed to create session:">>>>]
            /\ ClientReturn(p)
            /\ UNCHANGED csess
  /\ UNCHANGED <<started, cmu, calls, clog, handlers, convLog, clisten, cret,
                 notClient>>

\* the rest of the request: session.On, session.Send, the event loop and the
\* deferred unsubscribe and Destroy
ClientSession(p) ==
  /\ cpc[p] = "session"
  /\ clisten' = [clisten EXCEPT ![p] = @ + 1]
  /\ ClientReturn(p)
  /\ UNCHANGED <<started, cmu, calls, clog, handlers, convLog, cyield, csess,
                 cret, notClient>>

\* mutant of NeedsStop: Close stops the client whatever c.started says
NeedsStopAlways == TRUE

\* if c.started && c.client != nil
NeedsStop == started

\* Close: Lock; call client.Stop if started, else return nil
CloseLock(p) ==
  /\ cpc[p] = "close"
  /\ cmu = 0
  /\ IF NeedsStop
       THEN cpc' = [cpc EXCEPT ![p] = "stopping"] /\ cmu' = p /\ UNCHANGED cret
       ELSE /\ ClientReturn(p)
            /\ cret' = [cret EXCEPT ![p] = "nil"]
            /\ UNCHANGED cmu
  /\ UNCHANGED <<started, calls, clog, handlers, convLog, cyield, csess,
                 clisten, notClient>>

\* client.Stop returns; c.started = false; Unlock; return nil
StopDone(p) ==
  /\ cpc[p] = "stopping"
  /\ cmu = p
  /\ clog' = Append(clog, [op |-> "Stop", ok |-> TRUE, started |-> started])
  /\ started' = FALSE
  /\ cmu' = 0
  /\ ClientReturn(p)
  /\ cret' = [cret EXCEPT ![p] = "nil"]
  /\ UNCHANGED <<calls, handlers, convLog, cyield, csess, clisten, notClient>>

ClientNext ==
  \/ \E p \in Users : \E op \in {"GenerateContent", "Close"} : ClientCall(p, op)
  \/ \E p \in Users : EnsureLock(p)
  \/ \E p \in Users : \E ok \in BOOLEAN : StartDone(p, ok)
  \/ \E p \in Users : \E genaiTools \in ToolLists : ClientConvertTools(p, genaiTools)
  \/ \E p \in Users : \E ok \in BOOLEAN : ClientCreateSession(p, ok)
  \/ \E p \in Users : ClientSession(p)
  \/ \E p \in Users : CloseLock(p)
  \/ \E p \in Users : StopDone(p)

----------------------------------------------------------------------------
(* formatPrompt and extractText *)

\* the roles tried, and strings.ToLower on them
Roles == {"user", "USER", "model", "assistant", "system", "Custom"}

ToLower(role) ==
  IF role = "USER" THEN "user"
  ELSE IF role = "Custom" THEN "custom"
  ELSE role

\* the parts of a content: the Text of each part, a string over Bytes
PartLists ==
  {<<>>, <<<<"a", " ">>>>, <<<<"a">>, <<>>, <<"a">>>>}

Contents == [role : Roles, parts : PartLists]

RECURSIVE ContentLists(_)
ContentLists(n) ==
  IF n = 0 THEN {<<>>}
  ELSE ContentLists(n - 1)
         \cup {Append(l, c) : l \in {x \in ContentLists(n - 1) : Len(x) = n - 1},
                               c \in Contents}

\* strings.Join(texts, sep)
RECURSIVE Join(_, _)
Join(texts, sep) ==
  IF texts = <<>> THEN <<>>
  ELSE IF Len(texts) = 1 THEN texts[1]
  ELSE texts[1] \o sep \o Join(Tail(texts), sep)

NonEmpty(text) == text # <<>>

\* extractText: the non-empty part texts joined by a newline
extractText(content) == Join(SelectSeq(content.parts, NonEmpty), <<NL>>)

\* mutant of RoleLabel: the model role is written as it is
RoleLabelNoAssistant(role) ==
  IF role = "user" THEN <<"User", ":", " ">>
  ELSE IF role = "assistant" THEN <<"Assistant", ":", " ">>
  ELSE IF role = "system" THEN <<"System", ":", " ">>
  ELSE <<role, ":", " ">>

\* the switch on the lower-cased role: what is written before the text
RoleLabel(role) ==
  IF role = "user" THEN <<"User", ":", " ">>
  ELSE IF role \in {"model", "assistant"} THEN <<"Assistant", ":", " ">>
  ELSE IF role = "system" THEN <<"System", ":", " ">>
  ELSE <<role, ":", " ">>

\* the loop over the contents, writing to the strings.Builder
RECURSIVE WriteTurns(_)
WriteTurns(cs) ==
  IF cs = <<>> THEN <<>>
  ELSE LET text == extractText(Head(cs)) IN
         (IF text = <<>> THEN <<>>
          ELSE RoleLabel(ToLower(Head(cs).role)) \o text \o <<NL, NL>>)
           \o WriteTurns(Tail(cs))

formatPrompt(cs) ==
  IF Len(cs) = 0 THEN <<>>
  ELSE IF Len(cs) = 1 THEN extractText(cs[1])
  ELSE TrimSpace(WriteTurns(cs))

PromptInit ==
  /\ contents \in ContentLists(MaxContents)
  /\ fpc = "call"
  /\ prompt = <<>>

PromptIdle ==
  /\ contents = <<>>
  /\ fpc = "idle"
  /\ prompt = <<>>

\* the call returns
FormatPrompt ==
  /\ fpc = "call"
  /\ prompt' = formatPrompt(contents)
  /\ fpc' = "done"
  /\ UNCHANGED <<contents, notPrompt>>

PromptNext == FormatPrompt

----------------------------------------------------------------------------
(* Specifications *)

GenIdle ==
  /\ transport = "none"
  /\ cfgStreaming = FALSE
  /\ stream = FALSE
  /\ chanCap = 0
  /\ streaming = FALSE
  /\ ended = ""
  /\ gpc = "idle"
  /\ gctx = FALSE
  /\ eventCh = <<>>
  /\ receivedFinalMessage = FALSE
  /\ subscribed = FALSE
  /\ teardown = <<>>
  /\ lateFragments = 0
  /\ sent = FALSE
  /\ emitted = 0
  /\ observed = <<>>
  /\ yielded = <<>>

InitPoll == PollInit /\ KeyIdle /\ GenIdle /\ SSEIdle /\ ClientIdle /\ PromptIdle

SpecPoll == InitPoll /\ [][PollNext]_vars

InitKey == KeyInit /\ PollIdle /\ GenIdle /\ SSEIdle /\ ClientIdle /\ PromptIdle

SpecKey == InitKey /\ [][KeyNext]_vars

Init == GenInit /\ PollIdle /\ KeyIdle /\ SSEIdle /\ ClientIdle /\ PromptIdle

Next == GenNext

Spec == Init /\ [][Next]_vars

InitSSE == SSEInit /\ PollIdle /\ KeyIdle /\ GenIdle /\ ClientIdle /\ PromptIdle

SpecSSE == InitSSE /\ [][SSENext]_vars

InitClient == ClientInit /\ PollIdle /\ KeyIdle /\ GenIdle /\ SSEIdle /\ PromptIdle

SpecClient == InitClient /\ [][ClientNext]_vars

\* the iterator body and the caller's loop body are goroutine code that keeps
\* running; the session and the cancellation are under no obligation
SpecFair == Init /\ [][Next]_vars /\ WF_vars(ConsumerNext)

InitPrompt ==
  PromptInit /\ PollIdle /\ KeyIdle /\ GenIdle /\ SSEIdle /\ ClientIdle

SpecPrompt == InitPrompt /\ [][PromptNext]_vars

----------------------------------------------------------------------------
(* Properties of PollForAccessToken *)

\* what a token-endpoint response carries, in its error field or its body
Carries(r, w) == Contains(r.error, w) \/ Contains(r.text, w)

IsPendingResponse(r) == Carries(r, "authorization_pending")

IsSlowDownResponse(r) == Carries(r, "slow_down") /\ ~IsPendingResponse(r)

SlowDownCount(log) == Cardinality({i \in 1..Len(log) : IsSlowDownResponse(log[i])})

\* the structured responses of the device flow
StructuredError(r, w) == r.kind = "json" /\ r.status = StatusOK /\ r.error = <<w>>

Success(r) ==
  r.kind = "json" /\ r.status = StatusOK /\ r.error = <<>> /\ r.access_token # <<>>

Waits(times) == [i \in 1..(Len(times) - 1) |-> times[i + 1] - times[i]]

\* C8: while polling, currentInterval = initial interval + 5s per slow_down
\* response received so far; a slow_down adds exactly 5s and reschedules the
\* next tick one new interval from now; authorization_pending leaves the
\* interval unchanged; the interval never decreases.
C8_IntervalIsInitialPlusBackoffs ==
  /\ [](ppc \in {"select", "done"} =>
          currentInterval = initInterval + SlowDownIncrement * SlowDownCount(respLog))
  /\ [][ /\ currentInterval' >= currentInterval
         /\ (Len(respLog') > Len(respLog) /\ ppc' = "select") =>
              LET r == Last(respLog') IN
                /\ IsSlowDownResponse(r) =>
                     /\ currentInterval' = currentInterval + SlowDownIncrement
                     /\ nextTick' = clock' + currentInterval'
                /\ IsPendingResponse(r) => currentInterval' = currentInterval
       ]_vars

C8_Witness ==
  /\ ppc = "select"
  /\ SlowDownCount(respLog) >= 2
  /\ \E i \in 1..Len(respLog) : IsPendingResponse(respLog[i])
  /\ currentInterval = initInterval + 2 * SlowDownIncrement

\* the responses [slow_down, slow_down, authorization_pending, success]
C9_Scenario ==
  /\ initInterval = 1
  /\ Len(respLog) = 4
  /\ StructuredError(respLog[1], "slow_down")
  /\ StructuredError(respLog[2], "slow_down")
  /\ StructuredError(respLog[3], "authorization_pending")
  /\ Success(respLog[4])

\* C9 as stated: with responses [slow_down, slow_down, authorization_pending,
\* success] and initial interval 1s the waits between requests are 6s, 11s, 1s
\* and nothing is requested after the success.
C9_Original ==
  C9_Scenario => /\ Waits(reqTimes) = <<6, 11, 1>>
                 /\ ppc = "done"

\* C9 amended: with responses [slow_down, slow_down, authorization_pending,
\* success] and initial interval 1s the waits between requests are 6s, 11s and
\* 11s (authorization_pending keeps the backed-off interval), the call returns
\* the token and nothing is requested after the success.
C9_WaitsSixElevenEleven ==
  C9_Scenario => /\ Waits(reqTimes) = <<6, 11, 11>>
                 /\ ppc = "done"
                 /\ pret = [token |-> respLog[4].access_token, err |-> NoErr]
                 /\ Len(reqTimes) = 4

C9_Witness == C9_Scenario /\ ppc = "done" /\ ~pctx

\* a non-success HTTP status, or a structured error other than
\* authorization_pending and slow_down
TerminalFailure(r) ==
  \/ (r.kind = "http" /\ r.status # StatusOK)
  \/ /\ r.kind = "json"
     /\ r.status = StatusOK
     /\ r.error \notin {<<>>, <<"authorization_pending">>, <<"slow_down">>}

\* C10: the first response that is a non-success HTTP status or a structured
\* error other than authorization_pending / slow_down ends the call with that
\* error, whatever the body says, and no request follows it.
C10_TerminalFailureReturns ==
  \A i \in 1..Len(respLog) :
    TerminalFailure(respLog[i]) =>
      /\ i = Len(respLog)
      /\ ppc = "done"
      /\ pret.err = checkAccessToken(respLog[i]).err

\* C11: once ctx is cancelled during PollForAccessToken the call returns the
\* context's error, and no token-endpoint request is started after the
\* cancellation, also when a tick is due at the moment of the cancellation.
C11_CancelReturnsCtxErrWithoutRequest ==
  /\ ~lateCheck
  /\ (pctx /\ ppc = "done") => pret.err = CtxErr

----------------------------------------------------------------------------
(* Properties of ensureAPIKey *)

FiveYears == 157680000

\* an exchange that succeeded with a credential still unexpired at `now`
Fresh(r, now) ==
  /\ r.kind = "json"
  /\ r.status = StatusOK
  /\ r.token # <<>>
  /\ now < r.expires_at

\* C5: under concurrent callers, once an exchange has succeeded with a
\* credential that is still unexpired, no further exchange request has been
\* sent: that exchange is the only one since the cache went invalid, the cache
\* holds its credential, and every caller that returned nil without an exchange
\* of its own returned on that cached credential.
C5_OneExchangePerRefresh ==
  /\ \A i \in 1..Len(exchLog) :
       Fresh(exchLog[i], know) =>
         /\ exchSent = i
         /\ Len(exchLog) = i
         /\ copilotAPIKey = exchLog[i].token
         /\ apiKeyExpiresAt = exchLog[i].expires_at
         /\ \A p \in Callers : kpc[p] # "exchange"
  /\ (~HasPrefix(token, "github_pat_") /\ \E p \in Callers : kret[p] = "nil") =>
       exchSent >= 1

C5_Witness ==
  /\ exchSent = 1
  /\ Len(exchLog) = 1
  /\ Fresh(exchLog[1], know)
  /\ \E p, q \in Callers :
       /\ kret[p] = "nil" /\ kpath[p] = "exchange"
       /\ kret[q] = "nil" /\ kpath[q] = "recheck"

CachedUnexpired == copilotAPIKey # <<>> /\ know < apiKeyExpiresAt

\* C6: a validity check of ensureAPIKey made while a credential is cached and
\* now < expiry returns nil at once, sends no request and leaves the cached key
\* and expiry unchanged, on every call.
C6_ValidCacheIsNoOp ==
  [][\A p \in Callers :
       (CachedUnexpired /\ kpc[p] \in {"rcheck", "wlock"} /\ kpc'[p] # kpc[p]) =>
          /\ kpc'[p] = "idle"
          /\ kret'[p] = "nil"
          /\ copilotAPIKey' = copilotAPIKey
          /\ apiKeyExpiresAt' = apiKeyExpiresAt
          /\ exchSent' = exchSent
          /\ exchLog' = exchLog
    ]_vars

C6_Witness ==
  /\ CachedUnexpired
  /\ exchSent = 1
  /\ \A p \in Callers : kret[p] = "nil" /\ kpath[p] = "fast"

----------------------------------------------------------------------------
(* Properties of GenerateContent *)

TurnCompleteAt(i) ==
  yielded[i].response # None /\ yielded[i].response[1].turnComplete

\* C1: on both transports at most one yielded fragment has TurnComplete = true
\* and no fragment is yielded after it.
C1_OneTurnCompleteAndLast ==
  \A i \in 1..Len(yielded) :
    TurnCompleteAt(i) =>
      \A j \in (i + 1)..Len(yielded) : yielded[j].response = None

TerminalTypes == {"assistant.message", "session.idle", "session.error"}

\* C2: every assistant.message, session.idle or session.error event handed to
\* the listener is enqueued on eventCh, whatever the occupancy of the queue.
C2_TerminalEventAlwaysQueued ==
  \A i \in 1..Len(observed) :
    observed[i].type \in TerminalTypes => observed[i].queued

EndDelivered ==
  \E i \in 1..Len(observed) : observed[i].type \in {"session.idle", "session.error"}

\* C3: in the push bridge, with a caller that keeps iterating and a context
\* that is never cancelled, once session.idle or session.error was delivered
\* to the listener the sequence eventually terminates.
C3_EndEventTerminates ==
  (transport = "push" /\ EndDelivered) ~> (gpc = "done" \/ gctx)

\* C4: in the push consumer loop, once ctx is cancelled the next item yielded
\* is the context error: no response fragment is yielded after cancellation.
C4_CancelYieldsCtxErrNext ==
  [][(transport = "push" /\ gpc = "loop" /\ gctx /\ yielded' # yielded) =>
        Last(yielded') = YieldErr(CtxErr)]_vars

PartialAt(i) ==
  yielded[i].response # None /\ yielded[i].response[1].partial

DeltasWithText ==
  {i \in 1..Len(observed) :
     observed[i].type = "assistant.message_delta" /\ observed[i].event.delta # Nil}

\* C12: in the push bridge with Config.Streaming = false and stream = false
\* the effective streaming flag (Config.Streaming OR stream) is false, no
\* assistant.message_delta event is enqueued and no fragment with
\* Partial = true is yielded, however many delta events the session fires.
C12_NoPartialWhenStreamingDisabled ==
  /\ (transport = "push" /\ gpc # "start") =>
       (streaming <=> (cfgStreaming \/ stream))
  /\ (transport = "push" /\ ~cfgStreaming /\ ~stream) =>
       /\ \A i \in 1..Len(observed) :
            observed[i].type = "assistant.message_delta" => ~observed[i].offered
       /\ \A i \in 1..Len(yielded) : ~PartialAt(i)

\* streaming disabled, two delta events were fired and a fragment was yielded
C12_Witness ==
  /\ transport = "push" /\ ~cfgStreaming /\ ~stream
  /\ Cardinality(DeltasWithText) >= 2
  /\ \E i \in 1..Len(yielded) : yielded[i].response # None

\* C13: every fragment yielded on any path (push event conversion, pull chunk
\* conversion, pull final marker, non-streaming response) that has
\* Partial = true has TurnComplete = false.
C13_PartialIsNotTurnComplete ==
  \A i \in 1..Len(yielded) : PartialAt(i) => ~TurnCompleteAt(i)

\* a stream that yielded a partial chunk, the finishing chunk and the final
\* marker
C13_Witness ==
  /\ transport = "pull"
  /\ Len(yielded) = 3
  /\ PartialAt(1)
  /\ TurnCompleteAt(2) /\ yielded[2].response[1].finish # ""
  /\ yielded[3] = YieldResp(FinalMarker)

\* the sequence is over, and it ended on the transport's own end signal:
\* no error, no cancellation, no early stop by the caller
NaturalEnd == gpc = "done" /\ ended = "done" /\ ~gctx

\* C14: a generation sequence that ends naturally contains exactly one
\* fragment with TurnComplete = true, and that fragment is its last item.
C14_NaturalEndHasOneTurnCompleteLast ==
  NaturalEnd =>
    /\ Cardinality({i \in 1..Len(yielded) : TurnCompleteAt(i)}) = 1
    /\ TurnCompleteAt(Len(yielded))

ErrorAt(i) == yielded[i].err # None

\* C15: a sequence has one terminal transition. Once the consumer has handled
\* a cancellation, an idle/done signal or an upstream error, or yield has
\* returned false, yield is not called again; an error item is always the
\* last item, so at most one error is yielded.
C15_OneTerminalTransition ==
  /\ [](gpc = "done" => ended # "")
  /\ [](\A i \in 1..Len(yielded) : ErrorAt(i) => i = Len(yielded))
  /\ [][ended # "" => (yielded' = yielded /\ ended' = ended)]_vars

\* an upstream error ended a sequence that had yielded a fragment, with
\* results still waiting in the queue
C15_Witness ==
  /\ gpc = "done" /\ ended = "error"
  /\ Len(yielded) >= 2
  /\ eventCh # <<>>

IsQueued(o) == o.queued

\* the results of the events the listener enqueued, in the order in which it
\* received the events
QueuedResults ==
  LET q == SelectSeq(observed, IsQueued) IN
    [i \in 1..Len(q) |-> q[i].result[1]]

IsFragment(item) == item.response # None

\* C16: in the push bridge the fragments yielded are, in order, the fragments
\* of the enqueued events the consumer has taken so far: the queue holds the
\* rest in arrival order, dropped events appear nowhere, and no two
\* delivered events change places.
C16_YieldedInListenerOrder ==
  transport = "push" =>
    LET taken == Len(QueuedResults) - Len(eventCh) IN
      /\ taken >= 0
      /\ eventCh = SubSeq(QueuedResults, taken + 1, Len(QueuedResults))
      /\ SelectSeq(yielded, IsFragment)
           = [i \in 1..Len(SelectSeq(SubSeq(QueuedResults, 1, taken), IsFragment)) |->
                YieldResp(SelectSeq(SubSeq(QueuedResults, 1, taken),
                                    IsFragment)[i].response[1])]

\* a delta and the final message were yielded in arrival order while a later
\* event was dropped on the full queue
C16_Witness ==
  /\ transport = "push"
  /\ Len(yielded) = 2
  /\ PartialAt(1) /\ TurnCompleteAt(2)
  /\ \E i \in 1..Len(observed) : observed[i].offered /\ ~observed[i].queued

\* the session may still invoke the listener
ListenerCallable ==
  transport = "push" /\ subscribed /\ sent /\ emitted < MaxEvents

\* C17: in the push bridge an invocation of the listener completes in every
\* state of the queue and of the consumer loop (a consumer blocked in the
\* caller's yield included), for every event, and the number of queued
\* results never exceeds the capacity of eventCh.
C17_ListenerNeverWaits ==
  /\ Len(eventCh) <= chanCap
  /\ ListenerCallable => \A event \in SessionEvents : ENABLED Listener(event)

\* the consumer is blocked in yield, the queue is full, and the session can
\* fire a further event
C17_Witness ==
  /\ ListenerCallable
  /\ gpc = "yield"
  /\ Len(eventCh) = chanCap

\* data: {"choices":[{"delta":{"content":"hi"}}]}
HiFrame == [prefix |-> "data: ", text |-> "{chunk}", choices |-> 1,
            content |-> "hi", finish_reason |-> ""]

\* data: [DONE]
DoneFrame == [prefix |-> "data: ", text |-> "[DONE]", choices |-> 0,
              content |-> "", finish_reason |-> ""]

\* the partial fragment carrying "hi"
HiFragment == [partial |-> TRUE, turnComplete |-> FALSE, finish |-> "",
               content |-> Some([role |-> "model", text |-> "hi"])]

\* the stream was HiFrame then DoneFrame and the sequence ran to its end
C18_Scenario ==
  /\ transport = "pull" /\ stream
  /\ observed = <<[type |-> "line", line |-> HiFrame],
                  [type |-> "line", line |-> DoneFrame]>>
  /\ gpc = "done" /\ ended = "done"

\* C18 as stated: the frame with "hi" followed by [DONE] yields one partial
\* fragment containing "hi" and nothing else before the sequence ends.
C18_Original ==
  C18_Scenario => yielded = <<YieldResp(HiFragment)>>

\* C18: on the pull transport the frame with "hi" followed by [DONE] yields
\* one partial fragment containing "hi", then one empty fragment with
\* TurnComplete = true, and then the sequence ends.
C18_HiThenFinalMarker ==
  C18_Scenario =>
    yielded = <<YieldResp(HiFragment),
                YieldResp([partial |-> FALSE, turnComplete |-> TRUE,
                           finish |-> "", content |-> None])>>

C18_Witness == C18_Scenario /\ Len(yielded) = 2

IsMalformedFrame(o) == o.line.prefix = "data: " /\ o.line.text = "{malformed"

IsChunkFrame(o) == o.line.prefix = "data: " /\ o.line.text = "{chunk}"

\* the fragments of the well-formed frames read so far, in order
ChunkFragments ==
  LET frames == SelectSeq(observed, IsChunkFrame) IN
    [i \in 1..Len(frames) |-> YieldResp(convertChunk(frames[i].line))]

\* C19: on the pull transport a data frame whose payload does not decode is
\* skipped. Reading it yields nothing, ends nothing and produces no error,
\* and the fragments yielded are those of all well-formed frames read before
\* [DONE], in order (followed by the final marker once the stream is over).
C19_MalformedFrameSkipped ==
  /\ []((transport = "pull" /\ stream) =>
         SelectSeq(yielded, IsFragment) =
           ChunkFragments \o (IF ended = "done" THEN <<YieldResp(FinalMarker)>>
                              ELSE <<>>))
  /\ [][(transport = "pull" /\ Len(observed') > Len(observed)
          /\ IsMalformedFrame(Last(observed'))) =>
           (gpc' = "loop" /\ yielded' = yielded /\ ended' = ended)]_vars

\* a malformed frame was read and the well-formed frame after it was yielded
C19_Witness ==
  /\ transport = "pull"
  /\ Len(observed) >= 2
  /\ IsMalformedFrame(observed[1])
  /\ observed[2].line = HiFrame
  /\ yielded # <<>> /\ yielded[1] = YieldResp(HiFragment)

----------------------------------------------------------------------------
(* Properties of sseReader.ReadLine *)

\* the lines of a body: every newline-terminated segment, then the final
\* unterminated segment if there is one, each with surrounding white space
\* removed
RECURSIVE SplitLines(_)
SplitLines(str) ==
  IF str = <<>> THEN <<>>
  ELSE LET idx == IndexByte(str, NL) IN
         IF idx = 0 THEN <<TrimSpace(str)>>
         ELSE <<TrimSpace(SubSeq(str, 1, idx - 1))>>
                \o SplitLines(SubSeq(str, idx + 1, Len(str)))

\* C20: however the bytes of a body are split across Read calls, also when
\* the last Read returns data together with io.EOF, the lines ReadLine has
\* returned when it returns io.EOF are the lines of the body: one per
\* newline-terminated segment, then the final unterminated segment once.
C20_LinesIndependentOfSplit ==
  rerr = "EOF" => lines = SplitLines(input)

----------------------------------------------------------------------------
(* Properties of ensureAPIKey: failures *)

\* a transport error, a non-success status or an undecodable body
ExchangeFailed(r) == r.kind \in {"transport", "http", "badjson"}

\* C21: one ensureAPIKey call sends at most one exchange request (a request
\* is sent only by a caller moving from the lock to the exchange, and that
\* caller returns on the answer), and when the exchange fails the call
\* returns an error and the cached key and expiry are left as they were.
C21_FailedExchangeLeavesCache ==
  [][/\ exchSent' # exchSent =>
          /\ exchSent' = exchSent + 1
          /\ \E p \in Callers : kpc[p] = "wlock" /\ kpc'[p] = "exchange"
     /\ \A p \in Callers :
          (kpc[p] = "exchange" /\ kpc'[p] # "exchange") =>
             /\ kpc'[p] = "idle"
             /\ exchSent' = exchSent
             /\ ExchangeFailed(Last(exchLog')) =>
                  /\ kret'[p] = "err"
                  /\ copilotAPIKey' = copilotAPIKey
                  /\ apiKeyExpiresAt' = apiKeyExpiresAt
    ]_vars

\* a refresh of an expired credential failed and the expired credential is
\* still cached
C21_Witness ==
  /\ Len(exchLog) = 2
  /\ ~ExchangeFailed(exchLog[1]) /\ exchLog[1].token # <<>>
  /\ ExchangeFailed(exchLog[2])
  /\ copilotAPIKey = exchLog[1].token
  /\ apiKeyExpiresAt = exchLog[1].expires_at
  /\ \E p \in Callers : kret[p] = "err" /\ kpath[p] = "exchange"

----------------------------------------------------------------------------
(* Properties of New, ensureStarted and Close *)

IsStop(c) == c.op = "Stop"

IsStart(c) == c.op = "Start"

\* C22: Close returns nil whenever it returns; on an instance that is not
\* started (never started, or closed already) it returns without calling
\* client.Stop and leaves started = false; every client.Stop is made on a
\* started client, so between two Stops there is a successful Start and
\* consecutive Close calls stop the client at most once.
C22_CloseIsIdempotent ==
  /\ [](\A p \in Users : cret[p] \in {"none", "nil"})
  /\ [](\A i \in 1..Len(clog) : IsStop(clog[i]) =>
          /\ clog[i].started
          /\ \A j \in (i + 1)..Len(clog) : IsStop(clog[j]) =>
               \E k \in (i + 1)..(j - 1) : IsStart(clog[k]) /\ clog[k].ok)
  /\ [][\A p \in Users :
          (cpc[p] = "close" /\ cpc'[p] # "close" /\ ~started) =>
             /\ cpc'[p] = "idle"
             /\ cret'[p] = "nil"
             /\ clog' = clog
             /\ ~started'
       ]_vars

\* one GenerateContent started the client, then every user called Close:
\* both calls returned nil and the client was stopped once
C22_Witness ==
  /\ calls = MaxCalls
  /\ Len(clog) = 2 /\ IsStart(clog[1]) /\ IsStop(clog[2])
  /\ \A p \in Users : cpc[p] = "idle" /\ cret[p] = "nil"
  /\ ~started

\* the client calls that changed the state of the client: successful Starts
\* and Stops
Effective(c) == IsStop(c) \/ c.ok

Alternates(log) ==
  \A i \in 1..Len(log) : IsStart(log[i]) <=> (i % 2 = 1)

StartStopDiscipline ==
  /\ calls = 0 => (~started /\ clog = <<>>)
  /\ \A i \in 1..Len(clog) :
       /\ IsStart(clog[i]) => ~clog[i].started
       /\ IsStop(clog[i]) => clog[i].started
  /\ LET eff == SelectSeq(clog, Effective) IN
       started <=> (eff # <<>> /\ IsStart(Last(eff)))

\* C23 as stated: all calls to client.Start and client.Stop alternate
\* strictly, beginning with Start.
C23_Original == StartStopDiscipline /\ Alternates(clog)

\* C23: New does not start the client; Start is never called while started
\* is true and Stop never while it is false; the successful Starts and the
\* Stops alternate strictly beginning with a Start (a failed Start may be
\* followed by another Start); started is true exactly between a successful
\* Start and the next Stop.
C23_SuccessfulStartsAndStopsAlternate ==
  StartStopDiscipline /\ Alternates(SelectSeq(clog, Effective))

C23_Witness ==
  /\ Len(clog) = 3
  /\ IsStart(clog[1]) /\ ~clog[1].ok
  /\ IsStart(clog[2]) /\ clog[2].ok
  /\ IsStop(clog[3])

\* the declarations of a tool list that have no handler
Missing(genaiTools) ==
  {i \in 1..Len(Declarations(genaiTools)) :
     Declarations(genaiTools)[i] \notin handlers}

\* C25: when a function declaration of the request's tools has no handler,
\* convertTools returns an error naming such a tool and an empty tool list,
\* and the GenerateContent call yields exactly that one error, creates no
\* session and returns.
C25_MissingHandlerFails ==
  /\ [](\A i \in 1..Len(convLog) :
          Missing(convLog[i].arg) # {} =>
            /\ convLog[i].res.tools = <<>>
            /\ Len(convLog[i].res.err) = 2
            /\ convLog[i].res.err[1] = "no handler found for tool:"
            /\ \E m \in Missing(convLog[i].arg) :
                 convLog[i].res.err[2] = Declarations(convLog[i].arg)[m])
  /\ [][\A p \in Users :
          (cpc[p] = "tools" /\ cpc'[p] # "tools" /\ convLog' # <<>>
           /\ Missing(convLog'[1].arg) # {}) =>
             /\ cpc'[p] = "idle"
             /\ cyield'[p] = <<<<"failed to convert tools:">> \o convLog'[1].res.err>>
             /\ csess'[p] = 0
             /\ clisten'[p] = 0
       ]_vars

\* the second tool of a request has no handler and the first has one
C25_Witness ==
  /\ handlers = {"a"}
  /\ convLog # <<>>
  /\ convLog[1].arg = <<<<"a">>, <<"b">>>>
  /\ cpc[convLog[1].user] = "idle"
  /\ cyield[convLog[1].user] =
       <<<<"failed to convert tools:", "no handler found for tool:", "b">>>>
  /\ csess[convLog[1].user] = 0

\* C29: when client.Start fails, the GenerateContent call yields exactly one
\* error and returns, having created no session and subscribed no listener,
\* and started stays false; a call that finds started = false calls
\* client.Start, so the next GenerateContent attempts the start again.
C29_FailedStartIsRetried ==
  [][\A p \in Users :
       /\ (cpc[p] = "starting" /\ cpc'[p] # "starting" /\ ~Last(clog').ok) =>
             /\ cpc'[p] = "idle"
             /\ cyield'[p] = <<<<"failed to start client:">>>>
             /\ csess'[p] = 0
             /\ clisten'[p] = 0
             /\ ~started'
       /\ (cpc[p] = "ensure" /\ cpc'[p] # "ensure" /\ ~started) =>
             cpc'[p] = "starting"
    ]_vars

\* a start failed and a later GenerateContent called client.Start again
C29_Witness ==
  /\ Len(clog) >= 2
  /\ IsStart(clog[1]) /\ ~clog[1].ok
  /\ IsStart(clog[2])
  /\ \E p \in Users : cpc[p] = "idle" /\ cyield[p] = <<<<"failed to start client:">>>>

----------------------------------------------------------------------------
(* Properties of the listener: final messages *)

IsFinalMessage(o) == o.type = "assistant.message" /\ o.queued

\* C28: in the push bridge the result enqueued for an assistant.message event
\* is one fragment with Partial = false, TurnComplete = true, the full text
\* of the event and a finish reason, also when the event has no content.
C28_FinalMessageHasFinishReason ==
  transport = "push" =>
    \A i \in 1..Len(observed) : IsFinalMessage(observed[i]) =>
      LET r == observed[i].result[1] IN
        /\ r.response # None /\ r.err = None /\ ~r.done
        /\ ~r.response[1].partial
        /\ r.response[1].turnComplete
        /\ r.response[1].content =
             (IF observed[i].event.content = Nil THEN None
              ELSE ModelContent(observed[i].event.content))
        /\ r.response[1].finish # ""

----------------------------------------------------------------------------
(* Properties of GenerateContent: release of the session *)

\* C24: in the push bridge, once the session is created, the request runs no
\* deferred call before it returns, and when it has returned (send failure,
\* cancellation, upstream error, idle, caller stopping) the listener was
\* unsubscribed exactly once and after that the session destroyed exactly
\* once: no session or listener is left behind.
C24_SessionReleasedOnEveryExit ==
  transport = "push" =>
    /\ gpc # "done" => teardown = <<>>
    /\ gpc = "done" => teardown = <<"unsubscribe", "Destroy">> /\ ~subscribed

\* the caller stopped iterating after a fragment
C24_Witness ==
  /\ transport = "push"
  /\ gpc = "done"
  /\ ended = "stopped"
  /\ yielded # <<>>
  /\ teardown = <<"unsubscribe", "Destroy">>

----------------------------------------------------------------------------
(* Properties of generateStreamingContent: fatal conditions *)

StatusError == YieldErr(<<"request failed with status">>)

ReadError == YieldErr(<<"failed to read stream:">>)

\* a streaming request that ended before the stream started yielded exactly
\* one error, and the status error is never yielded in another place
FailedRequestYieldsOneError ==
  /\ (~sent /\ gpc \in {"yieldlast", "done"}) =>
        Len(yielded) = 1 /\ ErrorAt(1)
  /\ \A i \in 1..Len(yielded) :
        yielded[i] = StatusError => (~sent /\ Len(yielded) = 1)

\* the errors yielded after the stream has started are among these
StreamErrorsAmong(errs) ==
  sent => \A i \in 1..Len(yielded) : ErrorAt(i) => yielded[i] \in errs

\* C27 as stated: once the stream has started, only a read failure ends the
\* sequence with an error.
C27_Original ==
  (transport = "pull" /\ stream) =>
    FailedRequestYieldsOneError /\ StreamErrorsAmong({ReadError})

\* C27: on the pull transport a non-success initial status yields exactly one
\* error and no fragment; once the stream has started the sequence ends with
\* an error only on a read failure of the transport or on the cancellation
\* of the context, whatever the frames and lines contain.
C27_OnlyReadFailureOrCancelIsFatal ==
  (transport = "pull" /\ stream) =>
    FailedRequestYieldsOneError /\ StreamErrorsAmong({ReadError, YieldErr(CtxErr)})

\* a malformed frame and a chunk were read, then the read failed
C27_Witness ==
  /\ transport = "pull" /\ stream /\ sent
  /\ \E i \in 1..Len(observed) : IsMalformedFrame(observed[i])
  /\ Len(yielded) = 2
  /\ ~ErrorAt(1)
  /\ yielded[2] = ReadError

----------------------------------------------------------------------------
(* Properties of PollForAccessToken and Authenticate: termination *)

PollProgress == PollWait \/ \E r \in TokenResponses : PollTick(r)

\* the endpoint answers authorization_pending or slow_down
KeepsPolling(r) ==
  StructuredError(r, "authorization_pending") \/ StructuredError(r, "slow_down")

\* C26: PollForAccessToken returns only with a non-empty access token, with
\* the context's error after a cancellation, or with the error of a response
\* that is neither authorization_pending nor slow_down; a response of those
\* two kinds leaves the loop running with a later tick scheduled, at any
\* time, also after the grant's expires_in has passed, and while the context
\* is not cancelled the loop can always go on (the model stops at MaxPolls
\* requests).
C26_ReturnsOnlyOnTokenErrorOrCancel ==
  /\ [](ppc = "done" =>
          \/ pret.token # <<>> /\ pret.err = NoErr
          \/ pret.token = <<>> /\ pret.err = CtxErr /\ pctx
          \/ /\ pret.token = <<>> /\ pret.err # NoErr
             /\ respLog # <<>>
             /\ pret = checkAccessToken(Last(respLog))
             /\ ~KeepsPolling(Last(respLog)))
  /\ []((ppc = "select" /\ ~pctx /\ Len(reqTimes) < MaxPolls) =>
          ENABLED PollProgress)
  /\ [][(Len(respLog') > Len(respLog) /\ KeepsPolling(Last(respLog'))) =>
          /\ ppc' = "select"
          /\ pret' = pret
          /\ nextTick' > clock'
       ]_vars

\* Authenticate is still polling after three answers that keep the loop
\* running, the last request issued after the grant's expires_in
C26_Witness ==
  /\ apc = "polling" /\ ppc = "select" /\ ~pctx
  /\ Len(respLog) >= 3
  /\ \A i \in 1..Len(respLog) : KeepsPolling(respLog[i])
  /\ Last(reqTimes) > deviceLog[1].expires_in

\* C30: Authenticate makes no token-endpoint request before its device-code
\* request and makes exactly one device-code request; the poll uses the
\* device code and the interval of that response; when StartDeviceFlow fails
\* Authenticate returns the error, with no second device-code request and
\* no token-endpoint request.
C30_OneDeviceCodeRequestFirst ==
  apc # "none" =>
    /\ apc = "device" => (deviceLog = <<>> /\ reqTimes = <<>>)
    /\ apc # "device" => Len(deviceLog) = 1
    /\ reqTimes # <<>> =>
         /\ StartDeviceFlow(deviceLog[1]) = NoErr
         /\ initInterval = deviceLog[1].interval
         /\ \A i \in 1..Len(reqCodes) : reqCodes[i] = deviceLog[1].device_code
    /\ (deviceLog # <<>> /\ StartDeviceFlow(deviceLog[1]) # NoErr) =>
         /\ apc = "done"
         /\ aret = [token |-> <<>>,
                    err |-> <<"failed to start device flow:">>
                              \o StartDeviceFlow(deviceLog[1])]
         /\ reqTimes = <<>>
         /\ ppc = "idle"

\* the device-code response could not be decoded and Authenticate returned
C30_Witness ==
  /\ apc = "done"
  /\ Len(deviceLog) = 1
  /\ deviceLog[1].kind = "badjson"
  /\ aret.err = <<"failed to start device flow:", "failed to decode response:">>
  /\ reqTimes = <<>>

----------------------------------------------------------------------------
(* Properties of GenerateContent: events fired before the loop runs *)

IsOffered(o) == o.offered

\* the consumer loop has taken nothing from eventCh yet
NothingTaken == gpc = "loop" /\ yielded = <<>> /\ ended = ""

Min(a, b) == IF a <= b THEN a ELSE b

\* C31: in the push bridge the listener is registered when session.Send is
\* invoked and stays registered while the request runs; the results of the
\* events fired before the consumer loop has taken anything wait in eventCh
\* in arrival order, as many as its capacity allows, and the loop yields
\* the fragment at the head of the queue when it takes it.
C31_ListenerRegisteredBeforeSend ==
  /\ []((transport = "push" /\ gpc \in {"send", "loop", "yield", "yieldlast"})
          => subscribed)
  /\ []((transport = "push" /\ NothingTaken) =>
          /\ eventCh = QueuedResults
          /\ Len(eventCh) = Min(chanCap, Len(SelectSeq(observed, IsOffered))))
  /\ [][(transport = "push" /\ gpc = "loop" /\ eventCh # <<>>
          /\ eventCh' = Tail(eventCh) /\ IsFragment(Head(eventCh))) =>
            yielded' = Append(yielded, YieldResp(Head(eventCh).response[1]))
       ]_vars

\* two events fired before the loop took anything and filled the queue, a
\* third was dropped, and the loop then yielded the first two in order
C31_Witness ==
  /\ transport = "push"
  /\ chanCap = 2
  /\ Len(observed) = 3
  /\ observed[1].queued /\ observed[2].queued
  /\ observed[3].offered /\ ~observed[3].queued
  /\ Len(yielded) = 2
  /\ yielded[1] = YieldResp(observed[1].result[1].response[1])
  /\ yielded[2] = YieldResp(observed[2].result[1].response[1])

----------------------------------------------------------------------------
(* Properties of ensureAPIKey: what a nil return guarantees *)

\* the time at which the caller p, returning in this step, checked validity
CheckedAt(p) == IF kpc[p] = "exchange" THEN kchecked ELSE know

\* C32: whenever a call of ensureAPIKey returns nil, the cached key is
\* non-empty and the recorded expiry is later than the time at which the
\* call checked validity, whatever the exchange endpoint answered.
C32_NilReturnMeansUsableKey ==
  [][\A p \in DOMAIN kret :
       (kpc[p] # "idle" /\ kpc'[p] = "idle" /\ kret'[p] = "nil") =>
          /\ copilotAPIKey' # <<>>
          /\ CheckedAt(p) < apiKeyExpiresAt'
    ]_vars

----------------------------------------------------------------------------
(* Properties of ensureAPIKey: mutual exclusion of the exchange *)

Exchanging == {p \in DOMAIN kpc : kpc[p] = "exchange"}

IsSuccess(r) == r.kind = "json" /\ r.status = StatusOK

CachedPairIsWhole ==
  \/ (copilotAPIKey = <<>> /\ apiKeyExpiresAt = ZeroTime)
  \/ /\ copilotAPIKey = token
     /\ isPAT(token)
     /\ \E t \in 0..know : apiKeyExpiresAt = PATExpiry(t)
  \/ \E i \in 1..Len(exchLog) :
       /\ IsSuccess(exchLog[i])
       /\ copilotAPIKey = exchLog[i].token
       /\ apiKeyExpiresAt = TimeUnix(exchLog[i].expires_at)

\* C33: with any number of concurrent callers at most one exchange request
\* is in flight, made by the caller holding the exclusive lock; the cached
\* key and expiry change only together, in one step of the caller that has
\* the lock, and so the pair in the cache is always the initial pair, the
\* pair of the direct token, or the token and expiry of one and the same
\* successful exchange response.
C33_OneExchangeInFlight ==
  /\ [](Cardinality(Exchanging) <= 1
         /\ \A p \in Exchanging : writer = p)
  /\ [](CachedPairIsWhole)
  /\ [][(copilotAPIKey' # copilotAPIKey \/ apiKeyExpiresAt' # apiKeyExpiresAt) =>
          \E p \in DOMAIN kpc :
            \/ /\ kpc[p] = "exchange" /\ writer = p
               /\ copilotAPIKey' = Last(exchLog').token
               /\ apiKeyExpiresAt' = TimeUnix(Last(exchLog').expires_at)
            \/ /\ kpc[p] = "wlock" /\ writer = 0 /\ kpath'[p] = "direct"
               /\ copilotAPIKey' = token
               /\ apiKeyExpiresAt' = PATExpiry(know)
       ]_vars

\* a second exchange is in flight after the key of the first has expired,
\* while the other caller waits for the lock
C33_Witness ==
  /\ Len(exchLog) = 1
  /\ IsSuccess(exchLog[1])
  /\ copilotAPIKey = exchLog[1].token /\ copilotAPIKey # <<>>
  /\ apiKeyExpiresAt = TimeUnix(exchLog[1].expires_at)
  /\ \E p, q \in DOMAIN kpc :
       kpc[p] = "exchange" /\ writer = p /\ kpc[q] = "wlock"

----------------------------------------------------------------------------
(* Properties of PollForAccessToken: interval 0 and empty tokens *)

\* C34: for every initial interval, 0 included, PollForAccessToken enters
\* its polling loop and ends by returning; it never aborts.
C34_EveryIntervalEntersLoop == ppc # "panic"

\* success status, no error field, empty access_token
IsEmptySuccess(r) ==
  r.kind = "json" /\ r.status = StatusOK /\ r.error = <<>> /\ r.access_token = <<>>

\* C35: a token-endpoint response with success status, no error field and an
\* empty access_token does not end PollForAccessToken and does not change
\* the interval; the next request is due one interval after the tick that
\* was served, as after authorization_pending.
C35_EmptyTokenKeepsPolling ==
  [][(Len(respLog') > Len(respLog) /\ IsEmptySuccess(Last(respLog'))) =>
       /\ ppc' = "select"
       /\ pret' = pret
       /\ currentInterval' = currentInterval
       /\ nextTick' = nextTick + currentInterval
    ]_vars

\* an empty-token answer was followed by another request one interval later
C35_Witness ==
  /\ Len(reqTimes) >= 2
  /\ IsEmptySuccess(respLog[1])
  /\ reqTimes[2] - reqTimes[1] = currentInterval

----------------------------------------------------------------------------
(* Properties of generateStreamingContent over sseReader: end of stream *)

\* In a body the byte "a" stands for one whole frame `data: {chunk}`. A line
\* is a frame the read loop decodes when it holds exactly one; a line that
\* holds more (two frames, or frames around a newline) does not parse and
\* is skipped.
IsFrameLine(l) == l = <<"a">>

\* the fragments the read loop yields for the lines it is given
FragmentsOf(ls) == SelectSeq(ls, IsFrameLine)

\* C36: when a stream without [DONE] ends by EOF, the fragments yielded
\* before the final marker are the decoded frames of the body in order, as
\* they are when the same frames are followed by [DONE], however the body
\* is delivered by the Read calls.
C36_EOFEndsLikeDone ==
  rerr = "EOF" => FragmentsOf(lines) = FragmentsOf(SplitLines(input))

----------------------------------------------------------------------------
(* Properties of generateStreamingContent: cancellation *)

\* C37: on the pull transport at most one fragment is yielded after the
\* context was cancelled (the fragment of the line whose read was under way,
\* or the final marker); with ctx cancelled the top of the loop reads no
\* further line but yields the context's error and returns, and a line that
\* is not a data frame or does not parse yields nothing.
C37_AtMostOneFragmentAfterCancel ==
  /\ [](transport = "pull" => lateFragments <= 1)
  /\ [][(transport = "pull" /\ gctx /\ gpc = "loop" /\ gpc' # "loop") =>
          /\ gpc' = "yieldlast"
          /\ yielded' = Append(yielded, YieldErr(CtxErr))
          /\ observed' = observed
       ]_vars
  /\ [][(transport = "pull" /\ Len(observed') > Len(observed)
          /\ (Last(observed').line.prefix # "data: "
              \/ IsMalformedFrame(Last(observed')))) =>
            yielded' = yielded
       ]_vars

\* the context was cancelled while a line was being read: its fragment was
\* yielded and then the context's error ended the sequence
C37_Witness ==
  /\ transport = "pull"
  /\ lateFragments = 1
  /\ Len(yielded) >= 2
  /\ ~ErrorAt(Len(yielded) - 1)
  /\ Last(yielded) = YieldErr(CtxErr)
  /\ gpc = "done"

----------------------------------------------------------------------------
(* Properties of formatPrompt *)

HasText(content) == extractText(content) # <<>>

\* the label of a role, chosen without regard to case
LabelOf(role) ==
  IF ToLower(role) = "user" THEN "User"
  ELSE IF ToLower(role) \in {"model", "assistant"} THEN "Assistant"
  ELSE IF ToLower(role) = "system" THEN "System"
  ELSE ToLower(role)

\* '<Label>: <text>'
Entry(content) == <<LabelOf(content.role), ":", " ">> \o extractText(content)

\* the entries of the contents that have text, in input order, with one
\* blank line between two entries
Conversation(cs) ==
  LET turns == SelectSeq(cs, HasText) IN
    Join([i \in 1..Len(turns) |-> Entry(turns[i])], <<NL, NL>>)

\* C38 as stated: for two or more contents the result is the entries
\* themselves.
C38_Original ==
  fpc = "done" =>
    prompt = (IF Len(contents) = 0 THEN <<>>
              ELSE IF Len(contents) = 1 THEN extractText(contents[1])
              ELSE Conversation(contents))

\* C38: formatPrompt returns the empty string for no contents and the bare
\* text for a single content; for two or more contents it returns the
\* entries '<Label>: <text>' of the contents with non-empty text, in input
\* order and separated by one blank line, with the white space at the two
\* ends of the whole result removed.
C38_EntriesTrimmed ==
  fpc = "done" =>
    prompt = (IF Len(contents) = 0 THEN <<>>
              ELSE IF Len(contents) = 1 THEN extractText(contents[1])
              ELSE TrimSpace(Conversation(contents)))

\* three contents, the middle one without text, the last with a text that
\* ends in white space
C38_Witness ==
  /\ fpc = "done"
  /\ Len(contents) = 3
  /\ contents[1].role = "USER" /\ HasText(contents[1])
  /\ ~HasText(contents[2])
  /\ contents[3].role = "model" /\ contents[3].parts = <<<<"a", " ">>>>
  /\ prompt = <<"User", ":", " ">> \o extractText(contents[1])
                \o <<NL, NL, "Assistant", ":", " ", "a">>

====
